---------------------------- MODULE Spec2Model ----------------------------
(***************************************************************************)
(* Model of mtx-changer-python.py: one process invocation at a time runs   *)
(* against a tape library (the hardware inventory `hw`).  Every external   *)
(* tool call (mtx, mt, ls, lsscsi, camcontrol, sg_logs) is one step whose  *)
(* return code and output are chosen by the environment.  Text is modelled *)
(* as sequences of line records and volume labels as sequences of          *)
(* characters, so that the regular expressions of the script are computed  *)
(* on them rather than assumed.                                            *)
(***************************************************************************)
EXTENDS Integers, Sequences, FiniteSets, TLC

(* ------------------------------ bounds --------------------------------- *)
NDrives == 2        \* drives 0 .. NDrives-1
NSlots  == 2        \* storage slots 1 .. NSlots
NImpExp == 1        \* import/export slots NSlots+1 .. NSlots+NImpExp

\* the largest drive and slot numbers of the libraries of the lookups
MaxDriveNo == 10
MaxSlotNo == 12

Drives       == 0 .. (NDrives - 1)
StorageSlots == 1 .. NSlots
ImpExpSlots  == (NSlots + 1) .. (NSlots + NImpExp)
AllSlots     == StorageSlots \cup ImpExpSlots

(* ------------------------- labels and text ----------------------------- *)
NoTag == << >>                          \* element without a VolumeTag
VOL1  == <<"V", "O", "L", "1">>
CLN1  == <<"C", "L", "N", "1">>
CLN2  == <<"C", "L", "N", "2">>
VOL2  == <<"V", "O", "L", "2">>
NO_BARCODE == <<"N", "O", "_", "B", "A", "R", "C", "O", "D", "E">>
cln_str == <<"C", "L", "N">>            \* configured cleaning tape prefix

\* re: 'prefix.*' matched at a fixed position of a label
StartsWith(label, prefix) ==
    /\ Len(prefix) <= Len(label)
    /\ SubSeq(label, 1, Len(prefix)) = prefix

\* return codes an external tool may produce; 6 is "unit attention"
ToolRCs == {0, 1, 6}
\* exit status of the interpreter on an uncaught exception
PyTraceback == 1
\* exit status not yet set
Running == -1

(* --------------------------- the hardware ------------------------------ *)
EmptyElem == [full |-> FALSE, tag |-> NoTag, src |-> 0]
FullSlot(tag) == [full |-> TRUE, tag |-> tag, src |-> 0]
FullDrive(tag, from) == [full |-> TRUE, tag |-> tag, src |-> from]

\* a changer that leaves a copy of the volume in the slot
HwLoad_copies(h, s, d) ==
    [h EXCEPT !.drive[d] = FullDrive(h.slot[s].tag, s)]

\* Effect of `mtx load <s> <d>` that returns 0
HwLoad(h, s, d) ==
    [h EXCEPT !.drive[d] = FullDrive(h.slot[s].tag, s), !.slot[s] = EmptyElem]
HwCanLoad(h, s, d) ==
    s \in AllSlots /\ d \in Drives /\ h.slot[s].full /\ ~h.drive[d].full

\* a changer that puts the volume back into the slot it was loaded from
HwUnload_home(h, s, d) ==
    [h EXCEPT !.slot[h.drive[d].src] = FullSlot(h.drive[d].tag),
              !.drive[d] = EmptyElem]

\* Effect of `mtx unload <s> <d>` that returns 0
HwUnload(h, s, d) ==
    [h EXCEPT !.slot[s] = FullSlot(h.drive[d].tag), !.drive[d] = EmptyElem]
HwCanUnload(h, s, d) ==
    s \in AllSlots /\ d \in Drives /\ h.drive[d].full /\ ~h.slot[s].full

\* Effect of `mtx transfer <s> <t>` that returns 0
HwTransfer(h, s, t) ==
    [h EXCEPT !.slot[t] = h.slot[s], !.slot[s] = EmptyElem]
HwCanTransfer(h, s, t) ==
    s \in AllSlots /\ t \in AllSlots /\ h.slot[s].full /\ ~h.slot[t].full

\* Output of `mtx status`: the banner ('Storage Changer ...:<src> Drives,
\* <idx> Slots ( ... Import/Export )'), the drives, the storage slots and the
\* import/export slots, one line record each.
StatusLine(elem, idx, c) ==
    [elem |-> elem, idx |-> idx, full |-> c.full, tag |-> c.tag, src |-> c.src]
RECURSIVE LinesOf(_, _, _, _)
LinesOf(elem, f, lo, hi) ==
    IF lo > hi THEN << >>
    ELSE <<StatusLine(elem, lo, f[lo])>> \o LinesOf(elem, f, lo + 1, hi)
mtx_status(h) ==
    LET nd == Cardinality(DOMAIN h.drive)
        ns == Cardinality(DOMAIN h.slot) - h.impexp
    IN  <<[elem |-> "H", idx |-> h.banner.slots, full |-> FALSE,
           tag |-> NoTag, src |-> h.banner.drives]>>
        \o LinesOf("D", h.drive, 0, nd - 1)
        \o LinesOf("S", h.slot, 1, ns)
        \o LinesOf("I", h.slot, ns + 1, ns + h.impexp)

(* ------------------------------ listall -------------------------------- *)
IsDataTransferLine(l) == l.elem = "D"     \* 'Data Transfer Element \d+:.*\w'
IsStorageLine(l)      == l.elem = "S"     \* 'Storage Element \d+:.*\w'
IsImpExpLine(l)       == l.elem = "I"     \* 'Storage Element \d+ IMPORT.EXPORT.*\w'

OutLine(t, idx, from, v) == [t |-> t, idx |-> idx, slot |-> from, vol |-> v]

\* A line that no re.sub() pattern matches stays as mtx printed it:
\* 'Data Transfer Element <idx>:Full (Storage Element <slot> Loaded)' or
\* 'Storage Element <idx> IMPORT/EXPORT:Full'
RawForm(l) ==
    IF l.elem = "D" THEN "Data Transfer Element"
    ELSE IF l.elem = "I" THEN "Storage Element IMPORT/EXPORT"
    ELSE "Storage Element"
IsRaw(o) ==
    o.t \in {"Data Transfer Element", "Storage Element IMPORT/EXPORT",
             "Storage Element"}

\* The chain of re.sub() calls applied to one element line
listall_sub(l, ie) ==
    IF l.elem = "D" /\ ~l.full THEN OutLine("D:E", l.idx, 0, NoTag)
    ELSE IF l.elem = "D" /\ l.full /\ l.tag # NoTag
         THEN OutLine("D:F", l.idx, l.src, l.tag)
    ELSE IF l.elem = "S" /\ ~l.full THEN OutLine("S:E", l.idx, 0, NoTag)
    ELSE IF l.elem = "S" /\ l.full /\ l.tag # NoTag
         THEN OutLine("S:F", l.idx, 0, l.tag)
    ELSE IF l.elem = "S" /\ l.full THEN OutLine("S:F", l.idx, 0, NO_BARCODE)
    ELSE IF ie /\ l.elem = "I" /\ ~l.full THEN OutLine("I:E", l.idx, 0, NoTag)
    ELSE IF ie /\ l.elem = "I" /\ l.full /\ l.tag # NoTag
         THEN OutLine("I:F", l.idx, 0, l.tag)
    ELSE OutLine(RawForm(l), l.idx, l.src, l.tag)    \* no pattern matched

RECURSIVE MapSub(_, _)
MapSub(ls, ie) ==
    IF ls = << >> THEN << >>
    ELSE <<listall_sub(Head(ls), ie)>> \o MapSub(Tail(ls), ie)

listall(stdout, ie) ==
    MapSub(SelectSeq(stdout, IsDataTransferLine)
           \o SelectSeq(stdout, IsStorageLine)
           \o (IF ie THEN SelectSeq(stdout, IsImpExpLine) ELSE << >>), ie)

\* The text of an output line, character by character: the replacement
\* strings 'D:\1:E', 'D:\1:F:\2:\3', 'S:\1:E', 'S:\1:F:\2',
\* 'S:\1:F:NO_BARCODE', 'I:\1:E', 'I:\1:F:\2' with their groups filled in,
\* or the line as mtx printed it
Chars(str) == [i \in 1 .. Len(str) |-> SubSeq(str, i, i)]
RECURSIVE Digits(_)
Digits(n) ==
    IF n < 10 THEN <<ToString(n)>>
    ELSE Digits(n \div 10) \o <<ToString(n % 10)>>
Text(o) ==
    IF o.t \in {"D:E", "S:E", "I:E"}
    THEN Chars(SubSeq(o.t, 1, 2)) \o Digits(o.idx) \o Chars(":E")
    ELSE IF o.t = "D:F"
    THEN Chars("D:") \o Digits(o.idx) \o Chars(":F:") \o Digits(o.slot)
         \o Chars(":") \o o.vol
    ELSE IF o.t \in {"S:F", "I:F"}
    THEN Chars(SubSeq(o.t, 1, 2)) \o Digits(o.idx) \o Chars(":F:") \o o.vol
    ELSE IF o.t = "Data Transfer Element"
    THEN Chars("Data Transfer Element ") \o Digits(o.idx)
         \o Chars(":Full (Storage Element ") \o Digits(o.slot)
         \o Chars(" Loaded)")
    ELSE IF o.t = "Storage Element IMPORT/EXPORT"
    THEN Chars("Storage Element ") \o Digits(o.idx)
         \o Chars(" IMPORT/EXPORT:Full")
    ELSE Chars("Storage Element ") \o Digits(o.idx) \o Chars(":Full")

(* ----------------------------- getvolname ------------------------------ *)
\* re.search() on all_slots, the lines of listall() joined by newlines.  No
\* part of the two patterns matches a newline ('.' does not), so a match lies
\* within one line, and the match found is the leftmost one of the first
\* line that has one.  A search gives << >> for None, <<group(1)>> otherwise.
IsDigit(c) == c \in {"0", "1", "2", "3", "4", "5", "6", "7", "8", "9"}
HasAt(L, p, w) ==
    p + Len(w) - 1 <= Len(L) /\ SubSeq(L, p, p + Len(w) - 1) = w
Leftmost(ps) == CHOOSE p \in ps : \A q \in ps : p <= q

\* '[SI]:' + slot + ':.:(.*)' matches line L from position p on
SlotMatchAt(L, p, n) ==
    LET e == p + 2 + Len(Digits(n))         \* where the second colon stands
    IN  /\ L[p] \in {"S", "I"}
        /\ HasAt(L, p + 1, <<":">> \o Digits(n) \o <<":">>)
        /\ HasAt(L, e + 2, <<":">>)         \* any one character, then ':'

\* a pattern that takes the slot number as the beginning of a number:
\* '[SI]:' + slot + '\d*:.:(.*)'
SlotSearchLine_prefix(L, n) ==
    LET e == 2 + Len(Digits(n))
        ends(p) ==
            IF L[p] \in {"S", "I"} /\ HasAt(L, p + 1, <<":">> \o Digits(n))
            THEN {r \in (p + e) .. Len(L) :
                     /\ L[r] = ":" /\ HasAt(L, r + 2, <<":">>)
                     /\ \A q \in (p + e) .. (r - 1) : IsDigit(L[q])}
            ELSE {}
        ps == {p \in 1 .. Len(L) : ends(p) # {}}
    IN  IF ps = {} THEN << >>
        ELSE <<SubSeq(L, Leftmost(ends(Leftmost(ps))) + 3, Len(L))>>

\* the search in one line; group(1) is what follows the match of ':.:'
SlotSearchLine(L, n) ==
    LET ps == {p \in 1 .. Len(L) : SlotMatchAt(L, p, n)}
    IN  IF ps = {} THEN << >>
        ELSE <<SubSeq(L, Leftmost(ps) + 5 + Len(Digits(n)), Len(L))>>
RECURSIVE SlotSearch(_, _)
SlotSearch(txt, n) ==
    IF txt = << >> THEN << >>
    ELSE IF SlotSearchLine(Text(Head(txt)), n) # << >>
         THEN SlotSearchLine(Text(Head(txt)), n)
    ELSE SlotSearch(Tail(txt), n)
\* re.search('[SI]:' + n + ':.:(.*)', all_slots): group(1), or ''
SlotVol(txt, n) ==
    IF SlotSearch(txt, n) = << >> THEN NoTag ELSE SlotSearch(txt, n)[1]

\* 'D:' + drive_index + ':F:\d+:(.*)' matches line L from position p on:
\* the run of digits is followed by the colon at position r
DriveMatchEnds(L, p, d) ==
    LET e == p + 5 + Len(Digits(d))         \* where '\d+' starts
    IN  IF /\ L[p] = "D"
           /\ HasAt(L, p + 1, <<":">> \o Digits(d) \o <<":", "F", ":">>)
        THEN {r \in (e + 1) .. Len(L) :
                 L[r] = ":" /\ \A q \in e .. (r - 1) : IsDigit(L[q])}
        ELSE {}
DriveSearchLine(L, d) ==
    LET ps == {p \in 1 .. Len(L) : DriveMatchEnds(L, p, d) # {}}
    IN  IF ps = {} THEN << >>
        ELSE <<SubSeq(L, Leftmost(DriveMatchEnds(L, Leftmost(ps), d)) + 1,
                      Len(L))>>
RECURSIVE DriveSearch(_, _)
DriveSearch(txt, d) ==
    IF txt = << >> THEN << >>
    ELSE IF DriveSearchLine(Text(Head(txt)), d) # << >>
         THEN DriveSearchLine(Text(Head(txt)), d)
    ELSE DriveSearch(Tail(txt), d)
\* re.search('D:' + d + ':F:\\d+:(.*)', all_slots): group(1), or ''
DriveVol(txt, d) ==
    IF DriveSearch(txt, d) = << >> THEN NoTag ELSE DriveSearch(txt, d)[1]

\* The number that a command line argument made of digits stands for
int(str) == CHOOSE n \in 0 .. (MaxSlotNo + 1) : ToString(n) = str

getvolname(cmd, txt, sl, dd, di) ==
    IF cmd = "transfer" THEN <<SlotVol(txt, sl), SlotVol(txt, int(dd))>>
    ELSE IF cmd = "load"
         THEN IF SlotSearch(txt, sl) # << >> THEN <<SlotVol(txt, sl), NoTag>>
              ELSE <<DriveVol(txt, di), NoTag>>
    ELSE IF cmd = "unload" THEN <<DriveVol(txt, di), SlotVol(txt, sl)>>
    ELSE << >>                                         \* falls off: None

(* ------------------------------- loaded -------------------------------- *)
\* re.search('Data Transfer Element ' + di + ':Full.*', stdout), then the
\* first word of the substituted line: the slot number when the line carries
\* a VolumeTag, the word 'Data' of the unsubstituted line when it does not.
RECURSIVE loaded(_, _)
loaded(stdout, di) ==
    IF stdout = << >> THEN "0"
    ELSE IF Head(stdout).elem = "D" /\ Head(stdout).idx = di /\ Head(stdout).full
         THEN IF Head(stdout).tag # NoTag THEN ToString(Head(stdout).src)
              ELSE "Data"
    ELSE loaded(Tail(stdout), di)

(* -------------------------------- slots ------------------------------- *)
IsBanner(l) == l.elem = "H"               \* 'Storage Changer.*'
\* a slots() that takes the number in front of ' Drives'
slots_reads_drives(stdout) ==
    IF SelectSeq(stdout, IsBanner) = << >> THEN "AttributeError"
    ELSE ToString(Head(SelectSeq(stdout, IsBanner)).src)

\* re.search() of the banner, then the number in front of ' Slots'; without
\* a banner slots_line is None and slots_line.group(0) raises AttributeError
slots(stdout) ==
    IF SelectSeq(stdout, IsBanner) = << >> THEN "AttributeError"
    ELSE ToString(Head(SelectSeq(stdout, IsBanner)).idx)

(* -------------------------------- list --------------------------------- *)
IsFullDataTransferLine(l) == l.elem = "D" /\ l.full
IsFullStorageLine(l)      == l.elem = "S" /\ l.full
IsFullImpExpLine(l)       == l.elem = "I" /\ l.full

\* The chain of re.sub() calls that list() applies to one full element line
\* when vxa_packetloader is off: '<slot>:<label>' for a tagged volume (for a
\* drive, the slot it was loaded from), 'S:<slot>:F:NO_BARCODE' for a storage
\* slot without a VolumeTag, the line as mtx printed it otherwise.
list_sub(l, ie) ==
    IF l.elem = "D" /\ l.tag # NoTag THEN OutLine("L", l.src, 0, l.tag)
    ELSE IF ie /\ l.elem = "I" /\ l.tag # NoTag
         THEN OutLine("L", l.idx, 0, l.tag)
    ELSE IF l.elem = "S" /\ l.tag # NoTag THEN OutLine("L", l.idx, 0, l.tag)
    ELSE IF l.elem = "S" THEN OutLine("S:F", l.idx, 0, NO_BARCODE)
    ELSE OutLine(RawForm(l), l.idx, l.src, l.tag)

RECURSIVE MapListSub(_, _)
MapListSub(ls, ie) ==
    IF ls = << >> THEN << >>
    ELSE <<list_sub(Head(ls), ie)>> \o MapListSub(Tail(ls), ie)

\* list() with the drives in front, as in the line the source comments out
list_drives_first(stdout, ie, vxa) ==
    IF vxa THEN << >>
    ELSE MapListSub(SelectSeq(stdout, IsFullDataTransferLine)
                    \o SelectSeq(stdout, IsFullStorageLine)
                    \o (IF ie THEN SelectSeq(stdout, IsFullImpExpLine)
                        ELSE << >>), ie)

\* list(): storage slots, then import/export slots, then drives.  With
\* vxa_packetloader on, the rewritten line is never added to the output.
list(stdout, ie, vxa) ==
    IF vxa THEN << >>
    ELSE MapListSub(SelectSeq(stdout, IsFullStorageLine)
                    \o (IF ie THEN SelectSeq(stdout, IsFullImpExpLine)
                        ELSE << >>)
                    \o SelectSeq(stdout, IsFullDataTransferLine), ie)

(* -------------------------- chk_for_cln_tapes -------------------------- *)
\* the storage slot pattern without the cleaning tape prefix
IsClnS_any_label(o) == o.t = "S:F"
IsClnS(o) == o.t = "S:F" /\ StartsWith(o.vol, cln_str)
IsClnI(o) == o.t = "I:F" /\ StartsWith(o.vol, cln_str)
chk_for_cln_tapes(txt, ie) ==
    SelectSeq(txt, IsClnS) \o (IF ie THEN SelectSeq(txt, IsClnI) ELSE << >>)

(* ------------------------- configuration, inputs ----------------------- *)
MaxLoadWait == 1                        \* load_wait ranges over 0 .. MaxLoadWait
Unames == {"Linux", "FreeBSD", "SunOS"}
DriveDevices == {"/dev/nst0", "/dev/sa0"}
Configs ==
    [chk_drive : BOOLEAN, auto_clean : BOOLEAN, include_import_export : BOOLEAN,
     offline : BOOLEAN, uname : Unames, load_wait : 0 .. MaxLoadWait,
     vxa_packetloader : BOOLEAN]
Commands == {"list", "listall", "slots", "loaded", "load", "unload", "transfer"}

\* The command lines and configurations the script is run with.  Settings
\* and arguments that a command never reads are left at one value, except
\* that `loaded` is also run with the cleaning and offline settings all on.
ReadBy(x) ==
    /\ (x.cmd # "load" => x.cfg.load_wait = 0)
    /\ (x.cmd # "list" => ~x.cfg.vxa_packetloader)
    /\ (x.cmd \in {"list", "slots"} => x.slot = 1 /\ x.drive_index = 0)
    /\ (x.cmd = "slots" => ~x.cfg.include_import_export)
    /\ (x.cmd \notin {"unload", "loaded"}
          => ~x.cfg.chk_drive /\ ~x.cfg.offline)
    /\ (x.cmd = "loaded" /\ x.cfg.chk_drive
          => x.cfg.auto_clean /\ x.cfg.offline /\ x.cfg.uname = "Linux")
    /\ (~x.cfg.chk_drive => ~x.cfg.auto_clean /\ x.cfg.uname = "Linux")
    /\ (x.cmd # "transfer" /\ ~x.cfg.chk_drive => x.drive_device = "/dev/nst0")
    /\ (x.cmd # "transfer" /\ x.cfg.uname = "SunOS"
          => x.drive_device = "/dev/nst0")
    /\ (x.cmd # "transfer" /\ x.cfg.uname = "FreeBSD"
          => x.drive_device = "/dev/sa0")
\* For transfer the destination slot arrives in the drive_device position.
\* (The set is written as the image of itself, which makes it an enumerated
\* set once and for all.)
Invocations ==
    {y : y \in
    {x \in [cmd : Commands \ {"transfer"}, slot : AllSlots,
            drive_device : DriveDevices, drive_index : Drives,
            cfg : Configs, inventory : BOOLEAN] : ReadBy(x)}
    \cup
    {x \in [cmd : {"transfer"}, slot : AllSlots,
            drive_device : {ToString(n) : n \in AllSlots}, drive_index : {0},
            cfg : Configs, inventory : BOOLEAN] : ReadBy(x)}}

VARIABLES
    hw,             \* the library: its drives, its slots, how many of the
                    \* slots are import/export slots, and what its banner says
    hw_at_start,    \* history: the library as the invocation found it
    cfg,            \* the configuration file section of this invocation
    mtx_cmd, slot, drive_device, drive_index,       \* command line
    pc,             \* position of the invocation
    all_slots,      \* the snapshot taken by listall() at start-up
    volume,         \* getvolname() of the command line
    slt, vol, cln,  \* arguments of the running load()/unload()
    cln_tapes,      \* checkdrive()'s list of cleaning tapes
    s,              \* wait_for_drive()'s counter
    sg,             \* get_sg_node()'s result
    mtx_log,        \* the commands run so far in this invocation
    printed,        \* what the invocation wrote to stdout
    exit_status     \* process exit status, Running until it exits

vars == <<hw, hw_at_start, cfg, mtx_cmd, slot, drive_device, drive_index, pc, all_slots,
          volume, slt, vol, cln, cln_tapes, s, sg, mtx_log, printed,
          exit_status>>

\* The libraries the script is run against.  Slot 1 holds VOL1, or is the
\* empty source slot of what drive 0 holds; slot 2 holds a cleaning tape (or
\* VOL1 when the cleaning tape is in drive 0); the first import/export slot is
\* empty, holds a barcode-less volume or a second cleaning tape, or is the
\* source slot of what drive 1 holds.
Library(d0, d1, ie) ==
    [drive |-> [d \in Drives |-> IF d = 0 THEN d0
                                 ELSE IF d = 1 THEN d1 ELSE EmptyElem],
     slot  |-> [n \in AllSlots |->
                  IF n = 1 THEN (IF d0.full THEN EmptyElem ELSE FullSlot(VOL1))
                  ELSE IF n = 2
                       THEN (IF d0.tag = CLN1 THEN FullSlot(VOL1)
                             ELSE FullSlot(CLN1))
                  ELSE IF n = NSlots + 1 THEN ie
                  ELSE EmptyElem],
     impexp |-> NImpExp,
     banner |-> [drives |-> NDrives, slots |-> NSlots + NImpExp]]
Libraries ==
    {Library(d0, EmptyElem, ie) :
        d0 \in {EmptyElem, FullDrive(VOL1, 1), FullDrive(NoTag, 1),
                FullDrive(CLN1, 1)},
        ie \in {EmptyElem, FullSlot(NoTag), FullSlot(CLN2)}}
    \cup
    {Library(d0, FullDrive(VOL2, NSlots + 1), EmptyElem) :
        d0 \in {EmptyElem, FullDrive(VOL1, 1), FullDrive(NoTag, 1),
                FullDrive(CLN1, 1)}}

NoCfg == [chk_drive |-> FALSE, auto_clean |-> FALSE,
          include_import_export |-> FALSE, offline |-> FALSE,
          uname |-> "Linux", load_wait |-> 0, vxa_packetloader |-> FALSE]

Idle ==
    /\ hw_at_start = hw
    /\ cfg = NoCfg /\ mtx_cmd = "" /\ slot = 0 /\ drive_device = ""
    /\ drive_index = 0 /\ pc = "idle" /\ all_slots = << >> /\ volume = << >>
    /\ slt = 0 /\ vol = << >> /\ cln = FALSE /\ cln_tapes = << >> /\ s = 0
    /\ sg = "" /\ mtx_log = << >> /\ printed = << >> /\ exit_status = Running

Init == hw \in Libraries /\ Idle

Entry(tool, a, b, rc, out) ==
    [tool |-> tool, slot |-> a, drive |-> b, rc |-> rc, cln |-> cln, out |-> out]
Log(es) == mtx_log' = mtx_log \o es

\* Where a step leaves the invocation: the next position, or the exit status,
\* and what it wrote to stdout.
Goto(p)          == [pc |-> p, exit |-> Running, echo |-> << >>]
\* A message is a text of one line; Exits() writes messages, Prints() the
\* text of a listing.
Message(str) == <<OutLine(str, 0, 0, NoTag)>>
Exits(code, txt) ==
    [pc |-> "done", exit |-> code,
     echo |-> [i \in 1 .. Len(txt) |-> Message(txt[i])]]
Prints(code, txt) == [pc |-> "done", exit |-> code, echo |-> <<txt>>]
Becomes(o) ==
    /\ pc' = o.pc
    /\ exit_status' = o.exit
    /\ printed' = printed \o o.echo

\* chk_cmd_result() that logs the failure and returns
chk_cmd_result_never_exits(tool, rc) ==
    IF tool = "sg_logs" /\ rc = 6 THEN 6 ELSE 0

\* chk_cmd_result() without the exception made for sg_logs
chk_cmd_result_no_unit_attention(tool, rc) == IF rc # 0 THEN -1 ELSE 0

\* chk_cmd_result(): a non-zero return code ends the process with that code,
\* except the unit attention (6) of sg_logs, which is handed back.
chk_cmd_result(tool, rc) ==
    IF tool = "sg_logs" /\ rc = 6 THEN 6
    ELSE IF rc # 0 THEN -1          \* sys.exit(rc)
    ELSE 0

\* a dispatcher that turns every failure of load() or unload() into status 1
Return_generic(code, txt) ==
    Exits(IF cln THEN 0 ELSE IF code # 0 THEN 1 ELSE 0, txt)

\* `return code` from load() or unload().  The dispatcher passes the value of
\* the outer call to sys.exit(); the value of a call made by the cleaning
\* cycle is dropped by its caller, checkdrive() returns 0 and the outer
\* unload() returns its own result.returncode, which is 0 there.
Return(code, txt) == Exits(IF cln THEN 0 ELSE code, txt)

\* The `inventory` setting of the invocation: on iff listall() called
\* call_inventory() at start-up
inventory == \E i \in 1 .. Len(mtx_log) : mtx_log[i].tool = "mtx inventory"

\* The storage daemon runs the script; mtx inventory is called first when the
\* `inventory` setting is on.
Invoke(x) ==
    /\ pc = "idle"
    /\ mtx_cmd' = x.cmd /\ slot' = x.slot /\ drive_device' = x.drive_device
    /\ drive_index' = x.drive_index /\ cfg' = x.cfg
    /\ pc' = IF x.inventory THEN "call_inventory" ELSE "listall"
    /\ UNCHANGED <<hw, hw_at_start, all_slots, volume, slt, vol, cln, cln_tapes, s, sg,
                   mtx_log, printed, exit_status>>

call_inventory(rc) ==
    /\ pc = "call_inventory"
    /\ Log(<<Entry("mtx inventory", 0, 0, rc, "")>>)
    /\ Becomes(IF chk_cmd_result("mtx", rc) # 0 THEN Exits(rc, <<"stderr">>)
               ELSE Goto("listall"))
    /\ UNCHANGED <<hw, hw_at_start, cfg, mtx_cmd, slot, drive_device, drive_index,
                   all_slots, volume, slt, vol, cln, cln_tapes, s, sg>>

\* What mtx status prints: the status text, with its banner line or, when
\* the tool does not print one, without it (the banner is line 1)
stdout_of(h, banner) == IF banner THEN mtx_status(h) ELSE Tail(mtx_status(h))

\* a dispatcher that takes `loaded` for `unload`
dispatch_loaded_unloads(cmd, inv) ==
    IF cmd = "list" /\ inv THEN "list_inventory"
    ELSE IF cmd = "loaded" THEN "unload"
    ELSE cmd

\* The function that the if/elif chain on mtx_cmd calls, as the position of
\* its first external command: list() starts with call_inventory() when
\* `inventory` is on.
dispatch(cmd, inv) == IF cmd = "list" /\ inv THEN "list_inventory" ELSE cmd

\* listall() at start-up, getvolname(), and the dispatch on mtx_cmd up to the
\* first external command of the called function
listall_status(rc, banner) ==
    /\ pc = "listall"
    /\ rc # 0 => banner
    /\ Log(<<Entry("mtx status", 0, 0, rc,
                   IF banner THEN "" ELSE "no banner")>>)
    /\ IF chk_cmd_result("mtx", rc) # 0
       THEN /\ Becomes(Exits(rc, <<"stderr">>))
            /\ UNCHANGED <<all_slots, volume, slt, vol>>
       ELSE \E txt \in {listall(stdout_of(hw, banner),
                                 cfg.include_import_export)} :
            \E v \in {getvolname(mtx_cmd, txt, slot, drive_device,
                                 drive_index)} :
                /\ all_slots' = txt
                /\ volume' = v
                /\ Becomes(IF mtx_cmd = "listall" THEN Prints(0, txt)
                           ELSE Goto(dispatch(mtx_cmd, inventory)))
                /\ IF mtx_cmd \in {"load", "unload"}
                   THEN slt' = slot /\ vol' = v
                   ELSE UNCHANGED <<slt, vol>>
    /\ UNCHANGED <<hw, hw_at_start, cfg, mtx_cmd, slot, drive_device, drive_index, cln,
                   cln_tapes, s, sg>>

\* the `list` command: call_inventory() once more when `inventory` is on
list_inventory(rc) ==
    /\ pc = "list_inventory"
    /\ Log(<<Entry("mtx inventory", 0, 0, rc, "")>>)
    /\ Becomes(IF chk_cmd_result("mtx", rc) # 0 THEN Exits(rc, <<"stderr">>)
               ELSE Goto("list"))
    /\ UNCHANGED <<hw, hw_at_start, cfg, mtx_cmd, slot, drive_device, drive_index,
                   all_slots, volume, slt, vol, cln, cln_tapes, s, sg>>

\* the `list` command: mtx status and the rewriting of the full elements
list_cmd(rc) ==
    /\ pc = "list"
    /\ Log(<<Entry("mtx status", 0, 0, rc, "")>>)
    /\ Becomes(IF chk_cmd_result("mtx", rc) # 0 THEN Exits(rc, <<"stderr">>)
               ELSE Prints(0, list(mtx_status(hw), cfg.include_import_export,
                                    cfg.vxa_packetloader)))
    /\ UNCHANGED <<hw, hw_at_start, cfg, mtx_cmd, slot, drive_device, drive_index,
                   all_slots, volume, slt, vol, cln, cln_tapes, s, sg>>

\* the `slots` command: mtx status, whose output carries the banner or not
slots_cmd(rc, banner) ==
    /\ pc = "slots"
    /\ rc # 0 => banner
    /\ LET out == slots(stdout_of(hw, banner))
       IN  /\ Log(<<Entry("mtx status", 0, 0, rc,
                          IF banner THEN "" ELSE "no banner")>>)
           /\ Becomes(IF chk_cmd_result("mtx", rc) # 0
                      THEN Exits(rc, <<"stderr">>)
                      ELSE IF out = "AttributeError"
                      THEN Exits(PyTraceback, << >>)
                      ELSE Exits(0, <<out>>))
    /\ UNCHANGED <<hw, hw_at_start, cfg, mtx_cmd, slot, drive_device, drive_index,
                   all_slots, volume, slt, vol, cln, cln_tapes, s, sg>>

\* the `loaded` command
loaded_cmd(rc) ==
    /\ pc = "loaded"
    /\ LET out == loaded(mtx_status(hw), drive_index)
       IN  /\ Log(<<Entry("mtx status", 0, drive_index, rc,
                          IF rc = 0 THEN out ELSE "")>>)
           /\ Becomes(IF chk_cmd_result("mtx", rc) # 0
                      THEN Exits(rc, <<"stderr">>)
                      ELSE Exits(0, <<out>>))
    /\ UNCHANGED <<hw, hw_at_start, cfg, mtx_cmd, slot, drive_device, drive_index,
                   all_slots, volume, slt, vol, cln, cln_tapes, s, sg>>

(* -------------------------------- load --------------------------------- *)
\* load() without the first guard
load_guard_no_full_check(out, v) ==
    IF v[1] = NoTag THEN "Can't load a drive from an empty slot" ELSE "ok"
\* load() without the second guard
load_guard_no_slot_check(out, v) ==
    IF out # "0" THEN "Can't load a drive that is full" ELSE "ok"

\* The two guards of load(): a full drive, then an empty source slot
load_guard(out, v) ==
    IF out # "0" THEN "Can't load a drive that is full"
    ELSE IF v[1] = NoTag THEN "Can't load a drive from an empty slot"
    ELSE "ok"

\* load(): the loaded() query and the two guards
load_loaded(rc) ==
    /\ pc = "load"
    /\ LET out == loaded(mtx_status(hw), drive_index)
           g   == load_guard(out, vol)
       IN  /\ Log(<<Entry("mtx status", 0, drive_index, rc,
                          IF rc = 0 THEN out ELSE "")>>)
           /\ Becomes(IF chk_cmd_result("mtx", rc) # 0
                      THEN Exits(rc, <<"stderr">>)
                      ELSE IF g # "ok" THEN Return(1, <<g>>)
                      ELSE Goto("load_mtx"))
    /\ UNCHANGED <<hw, hw_at_start, cfg, mtx_cmd, slot, drive_device, drive_index,
                   all_slots, volume, slt, vol, cln, cln_tapes, s, sg>>

\* a load() that waits for the drive after a cleaning tape too
load_then_waits(c) == "wait_for_drive"

\* What follows a load that returned 0: the dwell and unload() for a cleaning
\* tape, wait_for_drive() otherwise
load_then(c) == IF c THEN "unload" ELSE "wait_for_drive"

\* load(): mtx load.  The changer moves the volume iff it returns 0.
load_mtx(rc) ==
    /\ pc = "load_mtx"
    /\ rc = 0 => HwCanLoad(hw, slt, drive_index)
    /\ hw' = IF rc = 0 THEN HwLoad(hw, slt, drive_index) ELSE hw
    /\ Log(<<Entry("mtx load", slt, drive_index, rc, "")>>
           \o (IF rc = 0 /\ load_then(cln) = "unload"
               THEN <<Entry("sleep clean_wait", 0, 0, 0, "")>> ELSE << >>))
    /\ Becomes(IF rc # 0 THEN Exits(rc, <<"Failed to load drive device">>)
               ELSE Goto(load_then(cln)))
    /\ s' = 0
    /\ UNCHANGED <<hw_at_start, cfg, mtx_cmd, slot, drive_device, drive_index, all_slots,
                   volume, slt, vol, cln, cln_tapes, sg>>

\* wait_for_drive() that takes the last poll for the timeout, marker or not
wait_for_drive_return_last(n, load_wait) == IF n >= load_wait THEN 1 ELSE 0

\* wait_for_drive() that reports success after the last poll too
wait_for_drive_return_zero(n, load_wait) == 0

\* wait_for_drive() after the loop: 1 when the counter ran out, 0 otherwise
wait_for_drive_return(n, load_wait) == IF n = load_wait + 1 THEN 1 ELSE 0

\* a loop that goes on whatever the counter says
wait_for_drive_loops_on(n, load_wait) == TRUE

\* the loop condition of wait_for_drive(): while s <= int(load_wait)
wait_for_drive_loops(n, load_wait) == n <= load_wait

\* wait_for_drive(): one turn of the loop (mt status, the search for the
\* ready marker, sleep(1)), and what follows the loop
wait_for_drive(rc, ready) ==
    /\ pc = "wait_for_drive"
    /\ s <= cfg.load_wait
    /\ Log(<<Entry("mt status", 0, drive_index, rc,
                   IF rc = 0 /\ ready THEN "ready" ELSE "")>>
           \o (IF rc = 0 /\ ~ready THEN <<Entry("sleep 1", 0, 0, 0, "")>>
               ELSE << >>))
    /\ IF chk_cmd_result("mt", rc) # 0
       THEN Becomes(Exits(rc, <<"stderr">>)) /\ UNCHANGED s
       ELSE IF ready
       THEN /\ Becomes(Exits(wait_for_drive_return(s, cfg.load_wait), << >>))
            /\ UNCHANGED s
       ELSE /\ s' = s + 1
            /\ Becomes(IF wait_for_drive_loops(s + 1, cfg.load_wait)
                       THEN Goto("wait_for_drive")
                       ELSE Exits(wait_for_drive_return(s + 1, cfg.load_wait),
                                  << >>))
    /\ UNCHANGED <<hw, hw_at_start, cfg, mtx_cmd, slot, drive_device, drive_index,
                   all_slots, volume, slt, vol, cln, cln_tapes, sg>>

(* ------------------------------- unload -------------------------------- *)
\* unload() without the second guard
unload_guard_no_slot_check(out, v) ==
    IF out = "0" THEN "Can't unload a drive that is empty" ELSE "ok"

\* The two guards of unload(): an empty drive, then a full destination slot
unload_guard(out, v) ==
    IF out = "0" THEN "Can't unload a drive that is empty"
    ELSE IF v[2] # NoTag THEN "Slot is full"
    ELSE "ok"

\* unload() that never sends the drive offline
unload_first_no_offline(off) == "unload_mtx"

\* unload() past its guards: `mt offline` first when `offline` is on
unload_first(off) == IF off THEN "unload_offline" ELSE "unload_mtx"

\* unload(): the loaded() query and the two guards
unload_loaded(rc) ==
    /\ pc = "unload"
    /\ LET out == loaded(mtx_status(hw), drive_index)
           g   == unload_guard(out, vol)
       IN  /\ Log(<<Entry("mtx status", 0, drive_index, rc,
                          IF rc = 0 THEN out ELSE "")>>)
           /\ Becomes(IF chk_cmd_result("mtx", rc) # 0
                      THEN Exits(rc, <<"stderr">>)
                      ELSE IF g # "ok" THEN Return(1, <<g>>)
                      ELSE Goto(unload_first(cfg.offline)))
    /\ UNCHANGED <<hw, hw_at_start, cfg, mtx_cmd, slot, drive_device, drive_index,
                   all_slots, volume, slt, vol, cln, cln_tapes, s, sg>>

\* unload(): mt offline
unload_offline(rc) ==
    /\ pc = "unload_offline"
    /\ Log(<<Entry("mt offline", 0, drive_index, rc, "")>>)
    /\ Becomes(IF chk_cmd_result("mt", rc) # 0 THEN Exits(rc, <<"stderr">>)
               ELSE Goto("unload_mtx"))
    /\ UNCHANGED <<hw, hw_at_start, cfg, mtx_cmd, slot, drive_device, drive_index,
                   all_slots, volume, slt, vol, cln, cln_tapes, s, sg>>

\* unload() that forgets the cln argument
unload_then_ignores_cln(c, chk_drive) ==
    IF chk_drive THEN "checkdrive" ELSE "no check"
\* unload() that forgets the chk_drive setting
unload_then_ignores_chk_drive(c, chk_drive) ==
    IF c THEN "skip" ELSE "checkdrive"

\* What unload() does after mtx unload returned 0
unload_then(c, chk_drive) ==
    IF c THEN "skip" ELSE IF chk_drive THEN "checkdrive" ELSE "no check"

\* checkdrive() up to the first external command of get_sg_node()
checkdrive_start(tapes) ==
    IF cfg.auto_clean /\ Len(tapes) = 0 THEN Exits(0, << >>)     \* return 1
    ELSE IF cfg.uname = "Linux" THEN Goto("get_sg_node_ls")
    ELSE IF cfg.uname = "FreeBSD" THEN Goto("get_sg_node_camcontrol")
    ELSE Exits(0, << >>)                                   \* sg == 1: return 1

\* unload(): mtx unload, and the entry of checkdrive().  The changer moves
\* the volume iff mtx returns 0.
unload_mtx(rc) ==
    /\ pc = "unload_mtx"
    /\ rc = 0 => HwCanUnload(hw, slt, drive_index)
    /\ hw' = IF rc = 0 THEN HwUnload(hw, slt, drive_index) ELSE hw
    /\ LET then  == unload_then(cln, cfg.chk_drive)
           tapes == IF cfg.auto_clean
                    THEN chk_for_cln_tapes(all_slots, cfg.include_import_export)
                    ELSE << >>
       IN  IF rc = 0 /\ then = "checkdrive"
           THEN /\ Log(<<Entry("mtx unload", slt, drive_index, rc, ""),
                         Entry("checkdrive", 0, drive_index, 0, "")>>)
                /\ cln_tapes' = tapes
                /\ Becomes(checkdrive_start(tapes))
           ELSE /\ Log(<<Entry("mtx unload", slt, drive_index, rc, "")>>)
                /\ UNCHANGED cln_tapes
                /\ Becomes(IF rc # 0
                           THEN Return(rc, <<"Failed to unload drive device">>)
                           ELSE Return(0, << >>))
    /\ UNCHANGED <<hw_at_start, cfg, mtx_cmd, slot, drive_device, drive_index, all_slots,
                   volume, slt, vol, cln, s, sg>>

(* ----------------------------- get_sg_node ----------------------------- *)
\* The tape node that the Linux branch looks up in the lsscsi output: the
\* device itself for /dev/st# and /dev/nst#; "unbound" when the device path
\* has none of the four recognised shapes and `st` is never assigned.
linux_st(dd) == IF dd = "/dev/nst0" THEN dd ELSE "unbound"

\* get_sg_node(), Linux: ls -l
get_sg_node_ls(rc) ==
    /\ pc = "get_sg_node_ls"
    /\ Log(<<Entry("ls", 0, 0, rc, "")>>)
    /\ Becomes(IF chk_cmd_result("ls", rc) # 0 THEN Exits(rc, <<"stderr">>)
               ELSE Goto("get_sg_node_lsscsi"))
    /\ UNCHANGED <<hw, hw_at_start, cfg, mtx_cmd, slot, drive_device, drive_index,
                   all_slots, volume, slt, vol, cln, cln_tapes, s, sg>>

\* What checkdrive() does with the value of get_sg_node(): a node is handed
\* to tapealerts(); None makes tapealerts() raise TypeError.
with_sg_node(node) ==
    IF node = "None" THEN Exits(PyTraceback, << >>) ELSE Goto("tapealerts")

\* get_sg_node(), Linux: lsscsi -g and the search for the tape node in it
get_sg_node_lsscsi(rc, found) ==
    /\ pc = "get_sg_node_lsscsi"
    /\ Log(<<Entry("lsscsi", 0, 0, rc, "")>>)
    /\ LET node == IF found THEN "/dev/sg0" ELSE "None"
       IN  IF chk_cmd_result("lsscsi", rc) # 0
           THEN Becomes(Exits(rc, <<"stderr">>)) /\ UNCHANGED sg
           ELSE IF linux_st(drive_device) = "unbound"       \* UnboundLocalError
           THEN Becomes(Exits(PyTraceback, << >>)) /\ UNCHANGED sg
           ELSE Becomes(with_sg_node(node)) /\ sg' = node
    /\ UNCHANGED <<hw, hw_at_start, cfg, mtx_cmd, slot, drive_device, drive_index,
                   all_slots, volume, slt, vol, cln, cln_tapes, s>>

\* get_sg_node(), FreeBSD: camcontrol devlist and the search for (pass#,sa#)
get_sg_node_camcontrol(rc, found) ==
    /\ pc = "get_sg_node_camcontrol"
    /\ found => drive_device = "/dev/sa0"
    /\ Log(<<Entry("camcontrol", 0, 0, rc, "")>>)
    /\ LET node == IF found THEN "/dev/pass0" ELSE "None"
       IN  IF chk_cmd_result("camcontrol", rc) # 0
           THEN Becomes(Exits(rc, <<"stderr">>)) /\ UNCHANGED sg
           ELSE Becomes(with_sg_node(node)) /\ sg' = node
    /\ UNCHANGED <<hw, hw_at_start, cfg, mtx_cmd, slot, drive_device, drive_index,
                   all_slots, volume, slt, vol, cln, cln_tapes, s>>

(* ------------------------ tapealerts and clean ------------------------- *)
\* checkdrive() after tapealerts(): clean() picks one of cln_tapes at random
\* and calls load(cln_slot, ..., (cln_vol, ''), cln=True); without a cleaning
\* action, or with auto_clean off, checkdrive() returns 0.
checkdrive_cleans(clean_action) == clean_action /\ cfg.auto_clean

clean_or_return(clean_action) ==
    IF checkdrive_cleans(clean_action)
    THEN \E i \in 1 .. Len(cln_tapes) :
            /\ slt' = cln_tapes[i].idx
            /\ vol' = <<cln_tapes[i].vol, NoTag>>
            /\ cln' = TRUE
            /\ Becomes(Goto("load"))
    ELSE /\ Becomes(Exits(0, << >>))
         /\ UNCHANGED <<slt, vol, cln>>

\* tapealerts(): the first sg_logs call
tapealerts(rc, clean_action) ==
    /\ pc = "tapealerts"
    /\ rc \notin {0, 6} => ~clean_action
    /\ LET q == Entry("sg_logs", 0, 0, rc,
                      IF clean_action THEN "Cleaning action required" ELSE "")
       IN  IF chk_cmd_result("sg_logs", rc) = 6
           THEN /\ Log(<<q>>)
                /\ Becomes(Goto("tapealerts_retry"))
                /\ UNCHANGED <<slt, vol, cln>>
           ELSE IF chk_cmd_result("sg_logs", rc) # 0
           THEN /\ Log(<<q>>)
                /\ Becomes(Exits(rc, <<"stderr">>))
                /\ UNCHANGED <<slt, vol, cln>>
           ELSE /\ Log(<<q>> \o (IF checkdrive_cleans(clean_action)
                                 THEN <<Entry("clean", 0, drive_index, 0, "")>>
                                 ELSE << >>))
                /\ clean_or_return(clean_action)
    /\ UNCHANGED <<hw, hw_at_start, cfg, mtx_cmd, slot, drive_device, drive_index,
                   all_slots, volume, cln_tapes, s, sg>>

\* tapealerts(): the second sg_logs call, whose return code is not looked at
tapealerts_retry(rc, clean_action) ==
    /\ pc = "tapealerts_retry"
    /\ Log(<<Entry("sg_logs", 0, 0, rc,
                   IF clean_action THEN "Cleaning action required" ELSE "")>>
           \o (IF checkdrive_cleans(clean_action)
               THEN <<Entry("clean", 0, drive_index, 0, "")>> ELSE << >>))
    /\ clean_or_return(clean_action)
    /\ UNCHANGED <<hw, hw_at_start, cfg, mtx_cmd, slot, drive_device, drive_index,
                   all_slots, volume, cln_tapes, s, sg>>

(* ------------------------------ transfer ------------------------------- *)
\* transfer() that looks at the source slot only
transfer_guard_source_only(v) == v[1] = NoTag

\* The guard of transfer(): source empty or destination full
transfer_guard(v) == v[1] = NoTag \/ v[2] # NoTag

\* a dispatcher that hands the value of transfer() to sys.exit()
transfer_exit_passes(code) == code

\* The dispatcher calls transfer() as a statement: the value it returns is
\* dropped and the script runs off its end, with status 0.
transfer_exit(code) == 0

\* transfer(): the guard, then mtx transfer
transfer(rc) ==
    /\ pc = "transfer"
    /\ IF transfer_guard(volume)
       THEN /\ rc = 0
            /\ Becomes(Exits(1, <<"The source slot is empty, or the destination slot is full">>))
            /\ UNCHANGED <<hw, mtx_log>>
       ELSE /\ rc = 0 => HwCanTransfer(hw, slot, int(drive_device))
            /\ hw' = IF rc = 0 THEN HwTransfer(hw, slot, int(drive_device))
                     ELSE hw
            /\ Log(<<Entry("mtx transfer", slot, int(drive_device), rc, "")>>)
            /\ Becomes(Exits(transfer_exit(rc),
                              IF rc # 0 THEN <<"Failed to transfer volume">>
                              ELSE << >>))
    /\ UNCHANGED <<hw_at_start, cfg, mtx_cmd, slot, drive_device, drive_index, all_slots,
                   volume, slt, vol, cln, cln_tapes, s, sg>>

(* --------------------------- the specification ------------------------- *)
Next ==
    \/ \E x \in Invocations : Invoke(x)
    \/ \E rc \in ToolRCs : call_inventory(rc)
    \/ \E rc \in ToolRCs, banner \in BOOLEAN : listall_status(rc, banner)
    \/ \E rc \in ToolRCs : list_inventory(rc)
    \/ \E rc \in ToolRCs : list_cmd(rc)
    \/ \E rc \in ToolRCs, banner \in BOOLEAN : slots_cmd(rc, banner)
    \/ \E rc \in ToolRCs : loaded_cmd(rc)
    \/ \E rc \in ToolRCs : load_loaded(rc)
    \/ \E rc \in ToolRCs : load_mtx(rc)
    \/ \E rc \in ToolRCs, ready \in BOOLEAN : wait_for_drive(rc, ready)
    \/ \E rc \in ToolRCs : unload_loaded(rc)
    \/ \E rc \in ToolRCs : unload_offline(rc)
    \/ \E rc \in ToolRCs : unload_mtx(rc)
    \/ \E rc \in ToolRCs : get_sg_node_ls(rc)
    \/ \E rc \in ToolRCs, found \in BOOLEAN : get_sg_node_lsscsi(rc, found)
    \/ \E rc \in ToolRCs, found \in BOOLEAN : get_sg_node_camcontrol(rc, found)
    \/ \E rc \in ToolRCs, ca \in BOOLEAN : tapealerts(rc, ca)
    \/ \E rc \in ToolRCs, ca \in BOOLEAN : tapealerts_retry(rc, ca)
    \/ \E rc \in ToolRCs : transfer(rc)

Spec == Init /\ [][Next]_vars

(* ------------------------- reading the history ------------------------- *)
Ran(tool) == \E i \in 1 .. Len(mtx_log) : mtx_log[i].tool = tool
Count(tool, c) ==
    Cardinality({i \in 1 .. Len(mtx_log) :
                    mtx_log[i].tool = tool /\ mtx_log[i].cln = c})
\* the answers loaded() gave so far, as positions of the history
LoadedAnswers ==
    {i \in 1 .. Len(mtx_log) :
        mtx_log[i].tool = "mtx status" /\ mtx_log[i].out \notin {"", "no banner"}}
\* a query of the library or of the drive ended the process
QueryFailed ==
    \E i \in 1 .. Len(mtx_log) :
        mtx_log[i].tool \in {"mtx inventory", "mtx status"} /\ mtx_log[i].rc # 0
\* slot n is occupied in the inventory taken at start-up
InvOccupied(n) ==
    \E i \in 1 .. Len(all_slots) :
        all_slots[i].t \in {"S:F", "I:F"} /\ all_slots[i].idx = n
SnapshotTaken == all_slots # << >>
\* a command moved a volume (the tool returned 0)
Moved(tool) ==
    \E i \in 1 .. Len(mtx_log) : mtx_log[i].tool = tool /\ mtx_log[i].rc = 0

(* -------------------------------- claims ------------------------------- *)
\* C1: for the load command, whenever loaded() reports the target drive
\* occupied, the invocation ends with status 1 (printing the full-drive
\* error) and mtx load is not invoked at any point of the invocation.
C1_LoadIntoFullDrive ==
    (mtx_cmd = "load" /\ \E i \in LoadedAnswers : mtx_log[i].out # "0")
        => /\ pc = "done"
           /\ exit_status = 1
           /\ printed = <<Message("Can't load a drive that is full")>>
           /\ ~Ran("mtx load")
C1_Witness ==
    /\ mtx_cmd = "load" /\ pc = "done"
    /\ \E i \in LoadedAnswers : mtx_log[i].out # "0"
    /\ hw.slot[slot].full

\* C2: for the unload command, if loaded() reports the drive empty or the
\* destination slot is occupied in the inventory, then mt offline and mtx
\* unload are not invoked, checkdrive() does not run, and the invocation ends
\* with status 1 (unless a status query itself failed).
C2_UnloadPrecondition ==
    (/\ mtx_cmd = "unload"
     /\ \/ \E i \in LoadedAnswers : ~mtx_log[i].cln /\ mtx_log[i].out = "0"
        \/ SnapshotTaken /\ InvOccupied(slot))
        => /\ ~Ran("mt offline")
           /\ ~Ran("mtx unload")
           /\ ~Ran("checkdrive")
           /\ pc \in {"unload", "done"}
           /\ (pc = "done" /\ ~QueryFailed => exit_status = 1)
C2_Witness ==
    /\ mtx_cmd = "unload" /\ pc = "done" /\ exit_status = 1
    /\ InvOccupied(slot)
    /\ \E i \in LoadedAnswers : mtx_log[i].out # "0"
    /\ printed = <<Message("Slot is full")>>

\* C3: mtx load is about to be invoked only when the source slot is occupied
\* and the destination drive is empty in the library; a load command for an
\* empty source slot never invokes mtx load and ends with status 1; and when
\* the slot is empty because its volume sits in the target drive, the failure
\* printed is the full-drive one, not the empty-slot one.
C3_LoadPrecondition ==
    /\ pc = "load_mtx" => hw.slot[slt].full /\ ~hw.drive[drive_index].full
    /\ (mtx_cmd = "load" /\ ~hw.slot[slot].full /\ ~Moved("mtx load"))
          => /\ ~Ran("mtx load")
             /\ pc # "load_mtx"
             /\ (pc = "done" /\ ~QueryFailed => exit_status = 1)
             /\ (/\ pc = "done" /\ ~QueryFailed
                 /\ hw.drive[drive_index].full
                 /\ hw.drive[drive_index].src = slot)
                   => printed = <<Message("Can't load a drive that is full")>>
C3_Witness ==
    /\ mtx_cmd = "load" /\ pc = "done" /\ exit_status = 1 /\ ~QueryFailed
    /\ ~hw.slot[slot].full
    /\ hw.drive[drive_index].full /\ hw.drive[drive_index].src = slot
C3_WitnessEmptySlot ==
    /\ mtx_cmd = "load" /\ pc = "done" /\ exit_status = 1
    /\ printed = <<Message("Can't load a drive from an empty slot")>>

\* C4: for the transfer command, if the source slot is not occupied or the
\* destination slot is occupied in the inventory, the process exits with
\* status 1 and mtx transfer is never invoked; the inventory is queried once
\* and the tool is invoked at most once.
C4_TransferPrecondition ==
    (mtx_cmd = "transfer" /\ SnapshotTaken)
        => /\ (~InvOccupied(slot) \/ InvOccupied(int(drive_device)))
                => /\ ~Ran("mtx transfer")
                   /\ (pc = "done" => exit_status = 1)
           /\ Count("mtx status", FALSE) = 1
           /\ Count("mtx transfer", FALSE) <= 1
C4_Witness ==
    /\ mtx_cmd = "transfer" /\ pc = "done" /\ exit_status = 1
    /\ InvOccupied(slot) /\ InvOccupied(int(drive_device))

(* --------------------------- cleaning claims --------------------------- *)
\* the unload asked for on the command line returned 0
OuterUnloaded ==
    \E i \in 1 .. Len(mtx_log) :
        /\ mtx_log[i].tool = "mtx unload" /\ ~mtx_log[i].cln
        /\ mtx_log[i].rc = 0
\* sg_logs printed 'Cleaning action required' in the run whose output
\* tapealerts() searches: the first run, unless it returned 6, or the retry
CleaningRequired ==
    \E i \in 1 .. Len(mtx_log) :
        /\ mtx_log[i].tool = "sg_logs"
        /\ mtx_log[i].out = "Cleaning action required"
        /\ \/ mtx_log[i].rc # 6
           \/ i > 1 /\ mtx_log[i - 1].tool = "sg_logs"
\* the changer commands and the dwell of the cleaning cycle, in order
IsClnOp(e) ==
    e.cln /\ e.tool \in {"mtx load", "sleep clean_wait", "mtx unload"}
ClnOps == SelectSeq(mtx_log, IsClnOp)
\* every command run on behalf of the cleaning cycle returned 0
ClnCommandsOk == \A i \in 1 .. Len(mtx_log) : mtx_log[i].cln => mtx_log[i].rc = 0
\* (slot, label) is a cleaning tape in a storage or import/export slot
IsCandidate(n, label) ==
    /\ n \in AllSlots
    /\ StartsWith(label, cln_str)
    /\ \E i \in 1 .. Len(all_slots) :
          /\ all_slots[i].t \in {"S:F", "I:F"}
          /\ all_slots[i].idx = n /\ all_slots[i].vol = label
C5_Given ==
    /\ mtx_cmd = "unload" /\ pc = "done" /\ OuterUnloaded
    /\ cfg.chk_drive /\ cfg.auto_clean /\ CleaningRequired
    /\ Len(cln_tapes) >= 1
FullCycle ==
    /\ Len(ClnOps) = 3
    /\ ClnOps[1].tool = "mtx load" /\ ClnOps[1].rc = 0
    /\ ClnOps[2].tool = "sleep clean_wait"
    /\ ClnOps[3].tool = "mtx unload"
    /\ ClnOps[3].slot = ClnOps[1].slot /\ ClnOps[3].drive = ClnOps[1].drive

C6_Original ==
    (mtx_cmd = "unload" /\ OuterUnloaded /\ pc = "done") => exit_status = 0

\* C7: checkdrive() runs at most once in an invocation and at most one
\* cleaning tape load is issued; the unload of the cleaning tape is the last
\* thing the invocation does: no check and no command follows it.
C7_NoRecursiveCleaning ==
    /\ Count("checkdrive", FALSE) + Count("checkdrive", TRUE) <= 1
    /\ Count("mtx load", TRUE) <= 1
    /\ \A i \in 1 .. Len(mtx_log) :
          (mtx_log[i].tool = "mtx unload" /\ mtx_log[i].cln)
              => i = Len(mtx_log) /\ pc = "done"
C7_Witness ==
    /\ pc = "done" /\ Count("mtx unload", TRUE) = 1
    /\ mtx_log[Len(mtx_log)].rc = 0 /\ CleaningRequired

\* the label of the volume that the outer unload put into its slot
Unloaded == hw.slot[slot].tag

\* C8 as stated: checkdrive() is entered only after the outer mtx unload
\* returned 0, only with chk_drive on, and only when the label of the volume
\* just unloaded does not match the cleaning tape prefix.
C8_Original ==
    Ran("checkdrive") => /\ mtx_cmd = "unload" /\ OuterUnloaded
                         /\ cfg.chk_drive
                         /\ ~StartsWith(Unloaded, cln_str)

\* C8 (amended): checkdrive() is entered only from the unload command, right
\* after the outer mtx unload (the one not made by the cleaning cycle, cln
\* False) returned 0, and only with chk_drive on; the label of the volume
\* unloaded plays no part.  It is never entered from load or transfer.
C8_CheckdriveEntry ==
    \A i \in 1 .. Len(mtx_log) :
        mtx_log[i].tool = "checkdrive"
            => /\ mtx_cmd = "unload" /\ cfg.chk_drive
               /\ ~mtx_log[i].cln
               /\ i > 1
               /\ mtx_log[i - 1].tool = "mtx unload"
               /\ mtx_log[i - 1].rc = 0 /\ ~mtx_log[i - 1].cln
C8_Witness ==
    /\ Ran("checkdrive") /\ StartsWith(Unloaded, cln_str) /\ Ran("sg_logs")

\* get_sg_node() found no node for the drive
Unresolved ==
    Ran("checkdrive") /\ (sg = "None" \/ cfg.uname \notin {"Linux", "FreeBSD"})

\* C9 as stated: when the drive's sg node cannot be resolved, sg_logs is not
\* run, no cleaning tape is loaded and the exit status is 0.
C9_Original ==
    (pc = "done" /\ Unresolved)
        => ~Ran("sg_logs") /\ Count("mtx load", TRUE) = 0 /\ exit_status = 0

NoCandidate ==
    \A i \in 1 .. Len(all_slots) :
        all_slots[i].t \in {"S:F", "I:F"} => ~StartsWith(all_slots[i].vol, cln_str)

\* C10 as stated: with auto_clean off, or no cleaning tape in the inventory,
\* a successful unload is followed by no cleaning tape load or unload and the
\* exit status is 0.
C10_Original ==
    (mtx_cmd = "unload" /\ OuterUnloaded /\ (~cfg.auto_clean \/ NoCandidate))
        => /\ Count("mtx load", TRUE) = 0
           /\ Count("mtx unload", TRUE) = 0
           /\ (pc = "done" => exit_status = 0)

(* ------------------------- exit status claims -------------------------- *)
\* the polls of wait_for_drive(), as positions of the history
Polls == {i \in 1 .. Len(mtx_log) : mtx_log[i].tool = "mt status"}
ReadySeen == \E i \in Polls : mtx_log[i].out = "ready"
PollFailed == \E i \in Polls : mtx_log[i].rc # 0
\* every poll but the last of the history is followed by sleep(1) and then
\* by the next poll
OneSecondApart ==
    \A i \in Polls :
        i + 1 <= Len(mtx_log)
            => /\ mtx_log[i + 1].tool = "sleep 1"
               /\ (i + 2 <= Len(mtx_log) => mtx_log[i + 2].tool = "mt status")

TimedOut ==
    /\ mtx_cmd = "load" /\ pc = "done" /\ Polls # {}
    /\ ~ReadySeen /\ ~PollFailed

\* C12 as stated: the exit status of a load that ends in the readiness
\* timeout differs from the status of a precondition violation and from the
\* generic failure code, which are both 1.
C12_Original == TimedOut => exit_status # 1

\* the changer command asked for on the command line, as positions of the
\* history (none, or one)
OuterOp ==
    {i \in 1 .. Len(mtx_log) :
        /\ ~mtx_log[i].cln
        /\ mtx_log[i].tool \in {"mtx load", "mtx unload", "mtx transfer"}}
\* a step that follows the changer command of a load or an unload failed: a
\* command returned a non-zero status (the unit attention of sg_logs apart),
\* the readiness wait ran out, or no sg node was found for the drive
LaterStepFailed ==
    \/ \E i \in 1 .. Len(mtx_log) :
          /\ mtx_log[i].rc # 0
          /\ i \notin OuterOp
          /\ ~(mtx_log[i].tool = "sg_logs" /\ mtx_log[i].rc = 6)
    \/ (Polls # {} /\ ~ReadySeen)
    \/ (Ran("lsscsi") /\ linux_st(drive_device) = "unbound")
    \/ sg = "None"

\* C13: for load and unload, when mtx load / mtx unload of the command
\* returns a non-zero status r the process exits with r; when it returns 0
\* and no later step fails the process exits with 0.
C13_ExitStatusPassThrough ==
    (mtx_cmd \in {"load", "unload"} /\ pc = "done")
        => \A i \in OuterOp :
              /\ mtx_log[i].rc # 0 => exit_status = mtx_log[i].rc
              /\ (mtx_log[i].rc = 0 /\ ~LaterStepFailed) => exit_status = 0
C13_Witness ==
    /\ mtx_cmd = "unload" /\ pc = "done" /\ exit_status = 6
    /\ \E i \in OuterOp : mtx_log[i].rc = 6

C15_Original ==
    (mtx_cmd \in {"load", "unload", "transfer"} /\ pc = "done")
        => /\ exit_status = 0
              => /\ \E i \in OuterOp : mtx_log[i].rc = 0
                 /\ mtx_cmd = "load" => ReadySeen
           /\ \A i \in OuterOp : mtx_log[i].rc # 0 => exit_status # 0

(* ------------------------- unit attention retry ------------------------ *)
IsSgLogs(e) == e.tool = "sg_logs"
SgLogs == SelectSeq(mtx_log, IsSgLogs)
\* checkdrive() went on to clean(): the decision taken from tapealerts()
Cleans == Ran("clean")
DecidedFrom(q) ==
    Cleans <=> (q.out = "Cleaning action required" /\ cfg.auto_clean)

\* C16: sg_logs is run at most twice in an invocation; exactly once when its
\* first status is 0, and the decision to clean is then taken from that
\* output; when its first status is 6 it is run exactly once more and the
\* decision is taken from the output of the second run, whatever the first
\* run printed and whatever status the second run returns.
C16_UnitAttentionRetry ==
    /\ Len(SgLogs) <= 2
    /\ Len(SgLogs) = 2 => SgLogs[1].rc = 6
    /\ (Len(SgLogs) >= 1 /\ SgLogs[1].rc = 0)
          => Len(SgLogs) = 1 /\ DecidedFrom(SgLogs[1])
    /\ (Len(SgLogs) >= 1 /\ SgLogs[1].rc = 6)
          => \/ pc = "tapealerts_retry" /\ Len(SgLogs) = 1 /\ ~Cleans
             \/ Len(SgLogs) = 2 /\ DecidedFrom(SgLogs[2])
C16_Witness ==
    /\ pc = "done" /\ cfg.auto_clean /\ Len(SgLogs) = 2
    /\ SgLogs[1].out = "Cleaning action required"
    /\ SgLogs[2].out = "" /\ ~Cleans /\ exit_status = 0

(* ----------------------- mutating operations --------------------------- *)
\* the changer commands of the invocation, as positions of the history
MutatingOps ==
    {i \in 1 .. Len(mtx_log) :
        mtx_log[i].tool \in {"mtx load", "mtx unload", "mtx transfer"}}

\* C17 as stated: an invocation issues at most one mtx load, unload or
\* transfer, for every command and every configuration.
C17_Original == Cardinality(MutatingOps) <= 1

\* C17 (amended): an invocation issues at most one changer command on behalf
\* of the command line (and none for a query command).  An unload command
\* with chk_drive and auto_clean on may, after its own mtx unload returned 0,
\* issue one mtx load and then one mtx unload of a cleaning tape: at most
\* three changer commands, and only one for every other command or
\* configuration.
C17_MutatingOps ==
    /\ Cardinality(OuterOp) <= 1
    /\ \A i \in OuterOp : mtx_log[i].tool = "mtx " \o mtx_cmd
    /\ Count("mtx load", TRUE) <= 1
    /\ Count("mtx unload", TRUE) <= Count("mtx load", TRUE)
    /\ Count("mtx transfer", TRUE) = 0
    /\ Cardinality(MutatingOps) <= 3
    /\ Cardinality(MutatingOps) > 1
          => /\ mtx_cmd = "unload" /\ cfg.chk_drive /\ cfg.auto_clean
             /\ OuterUnloaded /\ CleaningRequired
             /\ \A i \in OuterOp : \A j \in MutatingOps : i <= j
C17_Witness ==
    /\ pc = "done" /\ Cardinality(MutatingOps) = 3
    /\ \A i \in MutatingOps : mtx_log[i].rc = 0

(* ----------------------------- query failures -------------------------- *)
IsQuery(e) == e.tool \in {"mtx inventory", "mtx status"}
QueryCommands == {"list", "listall", "slots", "loaded"}
\* every tool of the invocation returned 0, and the banner was there for
\* slots() to read
ToolsSucceeded ==
    \A i \in 1 .. Len(mtx_log) :
        mtx_log[i].rc = 0 /\ mtx_log[i].out # "no banner"

\* C19: when mtx inventory or mtx status (the start-up query of listall(),
\* the query of loaded(), of list() or of slots()) returns a non-zero status,
\* the process ends there with that status: it is the last command of the
\* invocation, so no changer command follows it.  The query commands exit
\* with 0 when all their tools succeed.
C19_QueryFailure ==
    /\ \A i \in 1 .. Len(mtx_log) :
          (IsQuery(mtx_log[i]) /\ mtx_log[i].rc # 0)
              => /\ i = Len(mtx_log)
                 /\ pc = "done"
                 /\ exit_status = mtx_log[i].rc
    /\ (mtx_cmd \in QueryCommands /\ pc = "done" /\ ToolsSucceeded)
          => exit_status = 0
C19_Witness ==
    /\ mtx_cmd = "load" /\ pc = "done" /\ exit_status = 6
    /\ Len(mtx_log) = 3
    /\ mtx_log[1].tool = "mtx inventory" /\ mtx_log[3].tool = "mtx status"
    /\ mtx_log[3].rc = 6
    /\ hw.slot[slot].full /\ ~hw.drive[drive_index].full
C19_WitnessQueries ==
    /\ mtx_cmd = "list" /\ pc = "done" /\ exit_status = 0 /\ Len(mtx_log) = 4

(* ---------------------------- listall output --------------------------- *)
\* the lines of the listall output that have one of the six documented forms
\* for element kind k ("D", "S" or "I") and index n
FormedLines(txt, k, n) ==
    {i \in 1 .. Len(txt) :
        /\ txt[i].t \in {k \o ":E", k \o ":F"}
        /\ txt[i].idx = n
        /\ txt[i].t = k \o ":F" => txt[i].vol # NoTag}
\* the elements the output has to list
Listed(ie) ==
    ({"D"} \X Drives) \cup ({"S"} \X StorageSlots)
    \cup (IF ie THEN {"I"} \X ImpExpSlots ELSE {})

\* C20 as stated: the listall output has exactly one line per element (the
\* import/export slots only with include_import_export on), and every line
\* has one of the forms D:<idx>:E, D:<idx>:F:<slot>:<vol>, S:<slot>:E,
\* S:<slot>:F:<vol>, I:<slot>:E, I:<slot>:F:<vol>.
C20_Original ==
    SnapshotTaken
        => /\ Len(all_slots) = Cardinality(Listed(cfg.include_import_export))
           /\ \A e \in Listed(cfg.include_import_export) :
                 Cardinality(FormedLines(all_slots, e[1], e[2])) = 1
           /\ \A i \in 1 .. Len(all_slots) :
                 /\ ~IsRaw(all_slots[i])
                 /\ all_slots[i].t \in {"I:E", "I:F"}
                       => cfg.include_import_export

(* ------------------- a sequence of invocations ------------------------- *)
\* The storage daemon runs the script again and again against the same
\* library: when a process has exited, the next one starts from the library
\* as the last one left it.  Only the changer commands load, unload and
\* transfer are run, without and with the cleaning cycle.
ChainConfigs ==
    {c \in Configs :
        /\ c.chk_drive = c.auto_clean
        /\ ~c.offline /\ c.uname = "Linux" /\ c.load_wait = 0
        /\ ~c.vxa_packetloader}
ChainInvocations ==
    {x \in Invocations :
        /\ x.cmd \in {"load", "unload", "transfer"}
        /\ x.cfg \in ChainConfigs
        /\ ~x.inventory
        /\ x.cmd # "transfer" => x.drive_device = "/dev/nst0"}
ChainRCs == {0, 1}
\* The libraries the sequence starts from: VOL1 in slot 1 or in drive 0, the
\* cleaning tape CLN1 in slot 2, every other element empty
ChainLibraries ==
    {Library(d0, EmptyElem, EmptyElem) : d0 \in {EmptyElem, FullDrive(VOL1, 1)}}
InitChain == hw \in ChainLibraries /\ Idle

\* the process is gone: nothing of it remains but the state of the library
Reap ==
    /\ pc = "done"
    /\ cfg' = NoCfg /\ mtx_cmd' = "" /\ slot' = 0 /\ drive_device' = ""
    /\ drive_index' = 0 /\ pc' = "idle" /\ all_slots' = << >>
    /\ volume' = << >> /\ slt' = 0 /\ vol' = << >> /\ cln' = FALSE
    /\ cln_tapes' = << >> /\ s' = 0 /\ sg' = "" /\ mtx_log' = << >>
    /\ printed' = << >> /\ exit_status' = Running
    /\ hw_at_start' = hw
    /\ UNCHANGED hw

NextChain ==
    \/ \E x \in ChainInvocations : Invoke(x)
    \/ \E rc \in ChainRCs : listall_status(rc, TRUE)
    \/ \E rc \in ChainRCs : load_loaded(rc)
    \/ \E rc \in ChainRCs : load_mtx(rc)
    \/ \E rc \in ChainRCs, ready \in BOOLEAN : wait_for_drive(rc, ready)
    \/ \E rc \in ChainRCs : unload_loaded(rc)
    \/ \E rc \in ChainRCs : unload_mtx(rc)
    \/ \E rc \in ChainRCs : get_sg_node_ls(rc)
    \/ \E rc \in ChainRCs, found \in BOOLEAN : get_sg_node_lsscsi(rc, found)
    \/ \E rc \in ChainRCs, ca \in BOOLEAN : tapealerts(rc, ca)
    \/ \E rc \in ChainRCs : transfer(rc)
    \/ Reap

SpecChain == InitChain /\ [][NextChain]_vars

\* no volume label is in two occupied elements of the parsed inventory (the
\* placeholder of a barcode-less volume is not a label)
UniqueLabels(txt) ==
    \A i, j \in 1 .. Len(txt) :
        (/\ i # j
         /\ txt[i].t \in {"D:F", "S:F", "I:F"}
         /\ txt[j].t \in {"D:F", "S:F", "I:F"}
         /\ txt[i].vol # NO_BARCODE)
            => txt[i].vol # txt[j].vol

Listed_ok == mtx_cmd = "list" /\ pc = "done" /\ exit_status = 0
ListOutput == printed[1]
\* the storage slots of the library, and the kind of the element that holds
\* the volume with the given label
HwStorageSlots == 1 .. (Cardinality(DOMAIN hw.slot) - hw.impexp)
Holder(label) ==
    IF \E d \in DOMAIN hw.drive : hw.drive[d].full /\ hw.drive[d].tag = label
    THEN "D"
    ELSE IF \E n \in HwStorageSlots : hw.slot[n].full /\ hw.slot[n].tag = label
    THEN "S"
    ELSE "I"
\* the kind of element a line of the listall output, or of the list output,
\* stands for
KindOfLine(o) ==
    IF o.t = "L" THEN Holder(o.vol)
    ELSE IF o.t \in {"D:E", "D:F", "Data Transfer Element"} THEN "D"
    ELSE IF o.t \in {"S:E", "S:F", "Storage Element"} THEN "S"
    ELSE "I"
ListallRank(o) ==
    IF KindOfLine(o) = "D" THEN 1 ELSE IF KindOfLine(o) = "S" THEN 2 ELSE 3
ListRank(o) ==
    IF KindOfLine(o) = "S" THEN 1 ELSE IF KindOfLine(o) = "I" THEN 2 ELSE 3
Grouped(txt, Rank(_)) ==
    \A i, j \in 1 .. Len(txt) : i < j => Rank(txt[i]) <= Rank(txt[j])

\* C21: the listall output has the drives first, then the storage slots,
\* then the import/export slots; the list output has the storage slots
\* first, then the import/export slots, and the volumes loaded in drives last.
C21_Ordering ==
    /\ SnapshotTaken => Grouped(all_slots, ListallRank)
    /\ Listed_ok => Grouped(ListOutput, ListRank)
C21_Witness ==
    /\ Listed_ok /\ cfg.include_import_export
    /\ hw.drive[0].tag = VOL1 /\ hw.slot[NSlots + 1].tag = CLN2
    /\ Len(ListOutput) = 3 /\ ListOutput[3].vol = VOL1
    /\ all_slots[1].vol = VOL1

(* ------------------------- barcode-less volumes ------------------------ *)
\* the listall command printed its answer
Listedall_ok == mtx_cmd = "listall" /\ pc = "done" /\ exit_status = 0
\* the output has a line that reports element (k, n) occupied, with the
\* placeholder label
Placeholder(txt, k, n) ==
    \E i \in 1 .. Len(txt) :
        /\ txt[i].t = k \o ":F" /\ txt[i].idx = n
        /\ txt[i].vol = NO_BARCODE

\* C22 as stated: every occupied element without a volume tag, be it a
\* storage slot, an import/export slot or a drive, is reported as occupied
\* with a placeholder label in the listall output.
C22_Original ==
    Listedall_ok
        => /\ \A n \in StorageSlots :
                 (hw.slot[n].full /\ hw.slot[n].tag = NoTag)
                     => Placeholder(all_slots, "S", n)
           /\ \A n \in ImpExpSlots :
                 (/\ cfg.include_import_export
                  /\ hw.slot[n].full /\ hw.slot[n].tag = NoTag)
                     => Placeholder(all_slots, "I", n)
           /\ \A d \in Drives :
                 (hw.drive[d].full /\ hw.drive[d].tag = NoTag)
                     => Placeholder(all_slots, "D", d)

(* ----------------------------- list format ----------------------------- *)
\* the occupied elements of the library
Occupied ==
    {<<"D", d>> : d \in {d \in Drives : hw.drive[d].full}}
    \cup {<<"S", n>> : n \in {n \in StorageSlots : hw.slot[n].full}}
    \cup {<<"I", n>> : n \in {n \in ImpExpSlots : hw.slot[n].full}}
\* the '<slot>:<label>' line that list has to print for an occupied element
ListLineOf(e) ==
    IF e[1] = "D" THEN OutLine("L", hw.drive[e[2]].src, 0, hw.drive[e[2]].tag)
    ELSE OutLine("L", e[2], 0, hw.slot[e[2]].tag)

\* C23 as stated: the list command prints exactly one line per occupied
\* element, each of the form <slot>:<label> (for a drive, the slot the volume
\* came from), for every inventory and every setting of the toggles.
C23_Original ==
    Listed_ok
        => /\ Len(ListOutput) = Cardinality(Occupied)
           /\ \A i \in 1 .. Len(ListOutput) :
                 ListOutput[i].t = "L" /\ ListOutput[i].vol # NoTag
           /\ \A e \in Occupied :
                 Cardinality({i \in 1 .. Len(ListOutput) :
                                 ListOutput[i] = ListLineOf(e)}) = 1

(* ---------------------------- loaded answer ---------------------------- *)
\* the loaded command printed its answer
Loaded_ok == mtx_cmd = "loaded" /\ pc = "done" /\ exit_status = 0

\* C24 as stated: the loaded command prints the number of the slot the
\* volume in the addressed drive came from when that drive is occupied, with
\* or without a volume tag, and 0 when it is empty, whatever the other
\* drives hold.
C24_Original ==
    Loaded_ok
        => printed = <<Message(IF hw.drive[drive_index].full
                               THEN ToString(hw.drive[drive_index].src)
                               ELSE "0")>>

(* --------------------------- missing banner ---------------------------- *)
\* the status text that listall() parsed at start-up had no banner line
NoBanner ==
    \E i \in 1 .. Len(mtx_log) :
        /\ mtx_log[i].tool = "mtx status" /\ mtx_log[i].rc = 0
        /\ mtx_log[i].out = "no banner"
        /\ \A j \in 1 .. (i - 1) : mtx_log[j].tool = "mtx inventory"

\* C25 as stated: when the output of the status tool lacks the banner line,
\* the invocation aborts with a failure, whatever the command, and no mtx
\* load, unload or transfer is invoked.
C25_Original ==
    NoBanner => /\ MutatingOps = {}
                /\ pc = "done" => exit_status # 0

(* ---------------- a library of one drive and three slots --------------- *)
\* The libraries of the documented example: one drive, empty; storage slots
\* 1..3, each holding its volume VOL00<n> or empty; no import/export slot;
\* the banner announcing the counts of some larger library.
ExampleLabel(n) == Chars("VOL00") \o Digits(n)
ExampleBanners ==
    {[drives |-> 4, slots |-> 44], [drives |-> 1, slots |-> 3],
     [drives |-> 2, slots |-> 24]}
ExampleLibraries ==
    {[drive  |-> [d \in {0} |-> EmptyElem],
      slot   |-> [n \in 1 .. 3 |-> IF n \in held THEN FullSlot(ExampleLabel(n))
                                   ELSE EmptyElem],
      impexp |-> 0,
      banner |-> b] : held \in SUBSET (1 .. 3), b \in ExampleBanners}
ExampleInvocations == {x \in Invocations : x.cmd \in {"listall", "slots"}}

InitExample == hw \in ExampleLibraries /\ Idle
NextExample ==
    \/ \E x \in ExampleInvocations : Invoke(x)
    \/ \E rc \in ToolRCs : call_inventory(rc)
    \/ \E rc \in ToolRCs, banner \in BOOLEAN : listall_status(rc, banner)
    \/ \E rc \in ToolRCs, banner \in BOOLEAN : slots_cmd(rc, banner)
SpecExample == InitExample /\ [][NextExample]_vars

\* the status text of the example: drive 0 empty, slots 1..3 occupied
ExampleStatus ==
    /\ ~hw.drive[0].full
    /\ \A n \in 1 .. 3 : hw.slot[n].full /\ hw.slot[n].tag = ExampleLabel(n)
\* the lines of a printed text, as characters
PrintedLines == [i \in 1 .. Len(printed[1]) |-> Text(printed[1][i])]
\* the slots command was given a status text with a banner
Slots_ok ==
    /\ mtx_cmd = "slots" /\ pc = "done"
    /\ mtx_log[Len(mtx_log)].tool = "mtx status"
    /\ mtx_log[Len(mtx_log)].rc = 0 /\ mtx_log[Len(mtx_log)].out = ""

\* C26: on the status text with drive 0 empty and slots 1..3 holding VOL001,
\* VOL002 and VOL003, listall prints exactly the lines D:0:E, S:1:F:VOL001,
\* S:2:F:VOL002, S:3:F:VOL003 in that order; slots, given a banner that
\* reports 4 Drives and 44 Slots, prints 44.
C26_EndToEnd ==
    /\ (ExampleStatus /\ Listedall_ok)
         => /\ Len(printed) = 1
            /\ PrintedLines = <<Chars("D:0:E"), Chars("S:1:F:VOL001"),
                                Chars("S:2:F:VOL002"), Chars("S:3:F:VOL003")>>
    /\ (hw.banner = [drives |-> 4, slots |-> 44] /\ Slots_ok)
         => printed = <<Message("44")>> /\ exit_status = 0
C26_WitnessSlots ==
    /\ ExampleStatus /\ hw.banner = [drives |-> 4, slots |-> 44]
    /\ Slots_ok /\ printed = <<Message("44")>>
C26_Witness ==
    /\ ExampleStatus /\ Listedall_ok /\ Len(printed[1]) = 4
    /\ Text(printed[1][2]) = Chars("S:1:F:VOL001")

(* ---------------------- how the readiness wait ends -------------------- *)
\* the wait ended because a poll found the ready marker
EndedReady ==
    /\ mtx_log[Len(mtx_log)].tool = "mt status"
    /\ mtx_log[Len(mtx_log)].rc = 0 /\ mtx_log[Len(mtx_log)].out = "ready"
\* the wait ended because load_wait + 1 polls, each followed by its
\* sleep(1), did not find the marker
EndedTimeout ==
    /\ ~ReadySeen /\ Cardinality(Polls) = cfg.load_wait + 1
    /\ mtx_log[Len(mtx_log)].tool = "sleep 1"

\* C27 as stated: once the polling has started after a zero-status load, the
\* wait ends as Ready or as Timeout and in no other way; no result of a
\* single mt status poll ends it early or terminates the process.
C27_Original ==
    (mtx_cmd = "load" /\ pc = "done" /\ Polls # {})
        => EndedReady \/ EndedTimeout

(* -------------------- where the occupancy lookups come from ------------ *)
\* the status queries issued before position i of the history
StatusBefore(i) == {j \in 1 .. (i - 1) : mtx_log[j].tool = "mtx status"}
\* the outer changer command of a load or an unload command
OuterLoadUnload == {i \in OuterOp : mtx_cmd \in {"load", "unload"}}

\* C28 as stated: for load and unload, one status query - the snapshot of
\* the start of the invocation - precedes the mutating tool call and every
\* occupancy lookup of the precondition checks is derived from it.
C28_Original ==
    \A i \in OuterLoadUnload : Cardinality(StatusBefore(i)) = 1

\* C28, amended: for load and unload, exactly two status queries precede the
\* mutating tool call: the snapshot taken at the start of the invocation and
\* the query of loaded().  The slot lookup of the precondition check is
\* derived from the snapshot (the source slot of a load is occupied in it,
\* the destination slot of an unload is not), the drive lookup from the
\* answer of loaded() for the addressed drive (0 for a load, a slot number
\* for an unload).
C28_OccupancyLookups ==
    \A i \in OuterLoadUnload :
        \E j1, j2 \in StatusBefore(i) :
            /\ StatusBefore(i) = {j1, j2} /\ j1 < j2
            /\ mtx_log[j1].rc = 0 /\ mtx_log[j2].rc = 0
            /\ all_slots = listall(stdout_of(hw, mtx_log[j1].out # "no banner"),
                                   cfg.include_import_export)
                 \/ Moved("mtx load") \/ Moved("mtx unload")
            /\ mtx_log[j2].drive = drive_index
            /\ mtx_cmd = "load"
                 => InvOccupied(slot) /\ mtx_log[j2].out = "0"
            /\ mtx_cmd = "unload"
                 => ~InvOccupied(slot) /\ mtx_log[j2].out # "0"
C28_Witness ==
    /\ mtx_cmd = "load" /\ pc = "done" /\ exit_status = 0
    /\ OuterLoadUnload # {} /\ Moved("mtx load")
    /\ InvOccupied(slot) /\ ~hw.slot[slot].full

(* ------------------- the candidates of a cleaning decision ------------- *)
\* the (slot, label) pairs of a list of cleaning tapes
Pairs(tapes) == {<<tapes[i].idx, tapes[i].vol>> : i \in 1 .. Len(tapes)}
\* checkdrive() has computed its candidates, and no cleaning tape has been
\* moved since
Deciding ==
    /\ Ran("checkdrive") /\ cfg.auto_clean
    /\ Count("mtx load", TRUE) = 0

\* C29 as stated: the cleaning tape candidates used for a cleaning decision
\* are the (slot, label) pairs whose label matches the cleaning prefix in the
\* inventory as it is at decision time, after the outer unload has moved its
\* volume into the destination slot.
C29_Original ==
    Deciding
        => Pairs(cln_tapes)
             = Pairs(chk_for_cln_tapes(
                         listall(mtx_status(hw), cfg.include_import_export),
                         cfg.include_import_export))

(* ------------------------- the volume lookups -------------------------- *)
\* Lookups in larger libraries, where the number of one element is part of
\* the number of another: drives 0 .. MaxDriveNo, slots 1 .. MaxSlotNo of
\* which the last is an import/export slot.  Slots 1, 2, 11 and 12 hold the
\* volume VOL<n> or are empty, drives 0 and 10 hold the volume DRV<d> (taken
\* from slot 3 or 4) or are empty; every other element is empty.
LookupLibraries ==
    {[drive  |-> [d \in 0 .. MaxDriveNo |->
                    IF d \in fd
                    THEN FullDrive(Chars("DRV") \o Digits(d),
                                   IF d = 0 THEN 3 ELSE 4)
                    ELSE EmptyElem],
      slot   |-> [n \in 1 .. MaxSlotNo |->
                    IF n \in fs THEN FullSlot(Chars("VOL") \o Digits(n))
                    ELSE EmptyElem],
      impexp |-> 1,
      banner |-> [drives |-> MaxDriveNo + 1, slots |-> MaxSlotNo]] :
        fd \in SUBSET {0, 10}, fs \in SUBSET {1, 2, 11, 12}}
\* the slots and drives asked for, the last of each not in the library
LookupSlots == {1, 2, 11, 12, MaxSlotNo + 1}
LookupDrives == {0, 1, 10, MaxDriveNo + 1}
LookupInvocations ==
    {[cmd |-> c, slot |-> n, drive_device |-> "/dev/nst0", drive_index |-> d,
      cfg |-> [NoCfg EXCEPT !.include_import_export = ie],
      inventory |-> FALSE] :
        c \in {"load", "unload"}, n \in LookupSlots, d \in LookupDrives,
        ie \in BOOLEAN}
    \cup
    {[cmd |-> "transfer", slot |-> n, drive_device |-> ToString(m),
      drive_index |-> 0,
      cfg |-> [NoCfg EXCEPT !.include_import_export = ie],
      inventory |-> FALSE] :
        n \in LookupSlots, m \in LookupSlots, ie \in BOOLEAN}

InitLookup == hw \in LookupLibraries /\ Idle
NextLookup ==
    \/ \E x \in LookupInvocations : Invoke(x)
    \/ listall_status(0, TRUE)
SpecLookup == InitLookup /\ [][NextLookup]_vars

\* getvolname() has been called on the snapshot of the library
LookedUp ==
    /\ mtx_cmd \in {"load", "unload", "transfer"}
    /\ pc = mtx_cmd /\ mtx_log = <<Entry("mtx status", 0, 0, 0, "")>>
\* slot n, drive d is in the library and holds a volume
SlotHolds(n) == n \in DOMAIN hw.slot /\ hw.slot[n].full
DriveHolds(d) == d \in DOMAIN hw.drive /\ hw.drive[d].full
\* slot n is an import/export slot that the inventory leaves out
LeftOut(n) ==
    /\ n > Cardinality(DOMAIN hw.slot) - hw.impexp
    /\ ~cfg.include_import_export
\* what the lookups are about: the label in slot n, in drive d
InSlot(n) ==
    IF ~SlotHolds(n) \/ LeftOut(n) THEN NoTag
    ELSE IF hw.slot[n].tag # NoTag THEN hw.slot[n].tag
    ELSE IF n > Cardinality(DOMAIN hw.slot) - hw.impexp THEN NoTag
    ELSE NO_BARCODE
InDrive(d) == IF DriveHolds(d) THEN hw.drive[d].tag ELSE NoTag

\* C30 as stated: a volume lookup, for load, unload or transfer, on an
\* element that is unoccupied or not in the inventory returns the empty
\* sentinel; and a lookup for slot N never returns the volume of another slot
\* or of a drive.
C30_Original ==
    LookedUp
        => /\ mtx_cmd = "load"
                => /\ ~SlotHolds(slot) => volume[1] = NoTag
                   /\ volume[1] \in {NoTag, InSlot(slot)}
           /\ mtx_cmd = "unload"
                => /\ ~DriveHolds(drive_index) => volume[1] = NoTag
                   /\ ~SlotHolds(slot) => volume[2] = NoTag
                   /\ volume[2] \in {NoTag, InSlot(slot)}
           /\ mtx_cmd = "transfer"
                => /\ ~SlotHolds(slot) => volume[1] = NoTag
                   /\ ~SlotHolds(int(drive_device)) => volume[2] = NoTag
                   /\ volume[1] \in {NoTag, InSlot(slot)}
                   /\ volume[2] \in {NoTag, InSlot(int(drive_device))}

\* C30, amended: a slot lookup for unload or transfer, and the drive lookup
\* of unload, return the label of exactly the element asked for, and the
\* empty sentinel when that element is unoccupied or not in the inventory,
\* whatever other elements have a number that contains the number asked for.
\* The lookup of load returns the label in the source slot; when that slot is
\* unoccupied or not in the inventory it returns the label of the volume in
\* the addressed drive, and the sentinel only when that drive is empty too.
C30_VolumeLookup ==
    LookedUp
        => /\ mtx_cmd = "load"
                => volume = <<IF InSlot(slot) # NoTag THEN InSlot(slot)
                              ELSE InDrive(drive_index), NoTag>>
           /\ mtx_cmd = "unload"
                => volume = <<InDrive(drive_index), InSlot(slot)>>
           /\ mtx_cmd = "transfer"
                => volume = <<InSlot(slot), InSlot(int(drive_device))>>
\* slot 1 is empty while slot 11 and drive 10 are not
C30_Witness ==
    /\ LookedUp /\ mtx_cmd = "unload" /\ slot = 1 /\ drive_index = 0
    /\ ~SlotHolds(1) /\ SlotHolds(11) /\ ~DriveHolds(0) /\ DriveHolds(10)
    /\ volume = <<NoTag, NoTag>>
C30_WitnessFallback ==
    /\ LookedUp /\ mtx_cmd = "load" /\ ~SlotHolds(slot)
    /\ volume[1] = InDrive(drive_index) /\ volume[1] # NoTag

(* ----------------------------- termination ----------------------------- *)
\* The invocations whose termination is checked: every command and every
\* setting, on slot 1 and drive 0 (transfer: from slot 1 to the last slot),
\* against a library with drive 0 empty and one with drive 0 loaded.
LiveInvocations ==
    {x \in Invocations :
        /\ x.slot = 1 /\ x.drive_index = 0
        /\ ~x.cfg.include_import_export
        /\ x.cmd = "transfer" => x.drive_device = ToString(NSlots + NImpExp)}
LiveLibraries ==
    {Library(d0, EmptyElem, EmptyElem) : d0 \in {EmptyElem, FullDrive(VOL1, 1)}}
InitLive == hw \in LiveLibraries /\ Idle
NextLive ==
    \/ \E x \in LiveInvocations : Invoke(x)
    \/ \E rc \in ToolRCs : call_inventory(rc)
    \/ \E rc \in ToolRCs, banner \in BOOLEAN : listall_status(rc, banner)
    \/ \E rc \in ToolRCs : list_inventory(rc)
    \/ \E rc \in ToolRCs : list_cmd(rc)
    \/ \E rc \in ToolRCs, banner \in BOOLEAN : slots_cmd(rc, banner)
    \/ \E rc \in ToolRCs : loaded_cmd(rc)
    \/ \E rc \in ToolRCs : load_loaded(rc)
    \/ \E rc \in ToolRCs : load_mtx(rc)
    \/ \E rc \in ToolRCs, ready \in BOOLEAN : wait_for_drive(rc, ready)
    \/ \E rc \in ToolRCs : unload_loaded(rc)
    \/ \E rc \in ToolRCs : unload_offline(rc)
    \/ \E rc \in ToolRCs : unload_mtx(rc)
    \/ \E rc \in ToolRCs : get_sg_node_ls(rc)
    \/ \E rc \in ToolRCs, found \in BOOLEAN : get_sg_node_lsscsi(rc, found)
    \/ \E rc \in ToolRCs, found \in BOOLEAN : get_sg_node_camcontrol(rc, found)
    \/ \E rc \in ToolRCs, ca \in BOOLEAN : tapealerts(rc, ca)
    \/ \E rc \in ToolRCs, ca \in BOOLEAN : tapealerts_retry(rc, ca)
    \/ \E rc \in ToolRCs : transfer(rc)
\* Every external tool call returns and the interpreter goes on with the
\* next statement: a step that can be taken is taken.  Every step moves the
\* position of the invocation or runs a tool.
SpecLive == InitLive /\ [][NextLive]_vars /\ WF_<<pc, mtx_log>>(NextLive)

\* the changer commands run for a cleaning tape, in the order of the history
ClnChain ==
    LET IsClnMove(e) == e.cln /\ e.tool \in {"mtx load", "mtx unload"}
        ops == SelectSeq(mtx_log, IsClnMove)
    IN  [i \in 1 .. Len(ops) |-> ops[i].tool]
\* the bounds of the three loops of an invocation
Bounded ==
    /\ Cardinality(Polls) <= cfg.load_wait + 1
    /\ Len(SgLogs) <= 2
    /\ Len(SgLogs) = 2 => SgLogs[1].rc = 6
    /\ Cardinality(OuterOp) <= 1
    /\ ClnChain \in {<< >>, <<"mtx load">>, <<"mtx load", "mtx unload">>}
    /\ ClnChain # << >> => mtx_cmd = "unload" /\ OuterUnloaded

\* C31: every invocation terminates when each external tool call returns:
\* the readiness polling makes at most load_wait + 1 polls, sg_logs is run
\* again at most once (after a unit attention), and the chain of a cleaning
\* cycle is the outer unload, the load of the cleaning tape and its unload,
\* after which nothing more is moved.
C31_Termination ==
    /\ [](Bounded)
    /\ (pc # "idle") ~> (pc = "done" /\ exit_status # Running)
C31_Witness ==
    /\ pc = "done" /\ ClnChain = <<"mtx load", "mtx unload">>
    /\ Len(SgLogs) = 2

(* --------------------- the order of a cleaning cycle ------------------- *)
\* the changer commands of the cleaning cycle, as positions of the history
ClnLoads ==
    {i \in 1 .. Len(mtx_log) : mtx_log[i].cln /\ mtx_log[i].tool = "mtx load"}
ClnUnloads ==
    {i \in 1 .. Len(mtx_log) :
        mtx_log[i].cln /\ mtx_log[i].tool = "mtx unload"}
\* a readiness poll, a health query or a changer command
PollOrQueryOrMove(e) ==
    e.tool \in {"mt status", "sg_logs", "mtx load", "mtx unload",
                "mtx transfer"}

\* C32: in a cleaning cycle the load of the cleaning tape is issued only
\* after the outer unload returned 0 and loaded() reported the drive empty;
\* the unload of the cleaning tape is issued only after that load returned 0
\* and the dwell was slept; and between the two neither a readiness poll nor
\* a health query (nor another changer command) is issued.
C32_CleaningOrder ==
    /\ \A i \in ClnLoads :
          /\ \E j \in 1 .. (i - 1) :
                /\ mtx_log[j].tool = "mtx unload" /\ ~mtx_log[j].cln
                /\ mtx_log[j].rc = 0
          /\ mtx_log[i - 1].tool = "mtx status" /\ mtx_log[i - 1].rc = 0
          /\ mtx_log[i - 1].out = "0"
          /\ mtx_log[i - 1].drive = mtx_log[i].drive
    /\ \A k \in ClnUnloads :
          \E i \in ClnLoads :
              /\ i < k /\ mtx_log[i].rc = 0
              /\ mtx_log[i + 1].tool = "sleep clean_wait"
              /\ \A q \in (i + 1) .. (k - 1) : ~PollOrQueryOrMove(mtx_log[q])
    /\ \A q \in 1 .. Len(mtx_log) :
          mtx_log[q].cln => mtx_log[q].tool \notin {"mt status", "sg_logs"}
C32_Witness ==
    /\ pc = "done" /\ cfg.offline /\ ClnUnloads # {}
    /\ \A k \in ClnUnloads : mtx_log[k].rc = 0 /\ mtx_log[k - 1].tool = "mt offline"


(* ------------------- round trip of a cleaning cycle -------------------- *)
\* an unload invocation that ran the whole cleaning cycle, every tool of
\* which returned 0
CleanedAllOk ==
    /\ mtx_cmd = "unload" /\ pc = "done"
    /\ ToolsSucceeded /\ OuterUnloaded /\ FullCycle

\* C33: when every tool call of an unload invocation that cleans the drive
\* succeeds, the library ends as the invocation found it but for the unload
\* asked for: the drive is empty, the volume it held is in the destination
\* slot, the cleaning tape that was chosen is back in the slot it was taken
\* from, and every other drive and slot is as it was.
C33_RoundTrip ==
    CleanedAllOk =>
        /\ hw_at_start.drive[drive_index].full
        /\ hw.drive = [hw_at_start.drive EXCEPT ![drive_index] = EmptyElem]
        /\ hw.slot = [hw_at_start.slot EXCEPT
                         ![slot] = FullSlot(hw_at_start.drive[drive_index].tag)]
        /\ hw.impexp = hw_at_start.impexp /\ hw.banner = hw_at_start.banner
        /\ ClnOps[1].slot = slt /\ slt # slot
        /\ StartsWith(vol[1], cln_str)
        /\ hw_at_start.slot[slt] = FullSlot(vol[1])
        /\ hw.slot[slt] = FullSlot(vol[1])
        /\ exit_status = 0
\* a cleaning cycle after an unload into another slot than the one the
\* volume came from
C33_Witness ==
    /\ CleanedAllOk
    /\ slot # hw_at_start.drive[drive_index].src
    /\ hw.slot[slot].full /\ hw.slot[slt].full


(* ------------------- the poll that finds the marker -------------------- *)
\* the polls of the history, in order
PollSeq == SelectSeq(mtx_log, LAMBDA e : e.tool = "mt status")

\* C34: when a poll of the drive finds the ready marker - the k-th poll,
\* 1 <= k <= load_wait + 1, none of the k - 1 polls before it having found
\* it - the load command ends there with status 0: the poll is the last
\* command of the invocation, so no poll and no sleep follows it.  This
\* includes the last poll the loop allows, k = load_wait + 1.
C34_ReadyOnPoll ==
    ReadySeen =>
        LET k == Len(PollSeq)
        IN  /\ mtx_cmd = "load" /\ pc = "done" /\ exit_status = 0
            /\ 1 <= k /\ k <= cfg.load_wait + 1
            /\ Cardinality(Polls) = k
            /\ EndedReady
            /\ \A i \in 1 .. (k - 1) :
                  PollSeq[i].rc = 0 /\ PollSeq[i].out # "ready"
            /\ OneSecondApart
            /\ Count("sleep 1", FALSE) = k - 1
\* the marker is found by the last poll of a wait of more than one poll
C34_Witness ==
    /\ ReadySeen /\ pc = "done"
    /\ cfg.load_wait = MaxLoadWait
    /\ Len(PollSeq) = MaxLoadWait + 1


(* ------------------- the query commands change nothing ----------------- *)
\* C35: list, listall, slots and loaded run no other tool than mtx status
\* and mtx inventory - no mtx load, unload or transfer, no mt offline - and
\* never enter checkdrive(): the library stays as the invocation found it.
C35_QueriesReadOnly ==
    mtx_cmd \in QueryCommands =>
        /\ \A i \in 1 .. Len(mtx_log) : IsQuery(mtx_log[i])
        /\ MutatingOps = {} /\ ~Ran("mt offline")
        /\ ~Ran("checkdrive") /\ ~Ran("clean") /\ ~Ran("sg_logs")
        /\ ~cln /\ cln_tapes = << >>
        /\ pc \notin {"load", "load_mtx", "unload", "unload_offline",
                      "unload_mtx", "transfer", "wait_for_drive"}
        /\ hw = hw_at_start
\* `loaded` on a full drive that would be unloaded, taken offline and cleaned
\* if the command were unload
C35_Witness ==
    /\ mtx_cmd = "loaded" /\ pc = "done" /\ exit_status = 0
    /\ cfg.offline /\ cfg.chk_drive /\ cfg.auto_clean
    /\ hw.drive[drive_index].full /\ ~hw.slot[slot].full
    /\ Len(mtx_log) >= 2


(* ------------------------- offline before unload ----------------------- *)
Offlines == {i \in 1 .. Len(mtx_log) : mtx_log[i].tool = "mt offline"}
Unloads == {i \in 1 .. Len(mtx_log) : mtx_log[i].tool = "mtx unload"}

\* C36: with `offline` on, every mtx unload - of the volume or of a cleaning
\* tape - comes directly after one mt offline for the same drive that
\* returned 0, which itself comes directly after the loaded() query of that
\* unload: one mt offline per mtx unload.  An mt offline that returns a
\* non-zero status is the last command of the invocation: the process ends
\* with that status and mtx unload is not run.  With `offline` off no
\* mt offline is run.
C36_OfflineBeforeUnload ==
    /\ cfg.offline =>
          /\ \A i \in Unloads :
                /\ i >= 3
                /\ mtx_log[i - 1].tool = "mt offline" /\ mtx_log[i - 1].rc = 0
                /\ mtx_log[i - 1].drive = mtx_log[i].drive
                /\ mtx_log[i - 1].cln = mtx_log[i].cln
                /\ mtx_log[i - 2].tool = "mtx status"
          /\ \A j \in Offlines :
                /\ mtx_log[j - 1].tool = "mtx status" /\ mtx_log[j - 1].rc = 0
                /\ mtx_log[j - 1].out # "0"
                /\ mtx_log[j].rc = 0 /\ j < Len(mtx_log) => j + 1 \in Unloads
                /\ mtx_log[j].rc # 0 =>
                      /\ j = Len(mtx_log) /\ pc = "done"
                      /\ exit_status = mtx_log[j].rc
          /\ Cardinality(Offlines) <= 2
          /\ pc = "unload_mtx" => mtx_log[Len(mtx_log)].tool = "mt offline"
    /\ ~cfg.offline => Offlines = {}
\* the drive refuses to go offline before the cleaning tape is unloaded
C36_Witness ==
    /\ cfg.offline /\ pc = "done" /\ exit_status = 6
    /\ Cardinality(Offlines) = 2 /\ Cardinality(Unloads) = 1
    /\ mtx_log[Len(mtx_log)].tool = "mt offline" /\ mtx_log[Len(mtx_log)].cln
    /\ hw.drive[drive_index].full
\* the offline command and the unload both return 0
C36_WitnessUnloaded ==
    /\ cfg.offline /\ pc = "done" /\ exit_status = 0 /\ mtx_cmd = "unload"
    /\ Cardinality(Offlines) = 1 /\ Cardinality(Unloads) = 1
    /\ ~hw.drive[drive_index].full


(* -------------------- list with vxa_packetloader on -------------------- *)
\* the occupied elements that list() collects from the status output: the
\* drives, the storage slots and, with include_import_export on, the
\* import/export slots
Collected ==
    {e \in Occupied : e[1] = "I" => cfg.include_import_export}

\* C37 as stated: the output of list has a line for every occupied element
\* that list() collects, whether vxa_packetloader is on or off.
C37_Original == Listed_ok => Len(ListOutput) = Cardinality(Collected)

=============================================================================
